---- MODULE Spec2Model ----
(***************************************************************************)
(* EventSub notification parsing and dispatch of twitch_api2                *)
(* (src/eventsub/event.rs): the envelope parsers of the text path and of    *)
(* the HTTP path, the (version, event type) dispatcher Event::parse_request *)
(* and the classification accessors of the Event value.                     *)
(*                                                                          *)
(* A JSON body is modelled by its shape: which fields are present and what  *)
(* JSON kind each holds.  Header values and strings are TLA+ strings; two   *)
(* reserved values stand for a missing field or header and for a header     *)
(* value that is not valid UTF-8.                                           *)
(***************************************************************************)
EXTENDS Integers, Sequences, FiniteSets, TLC

VARIABLES request, pc, op, envelope, result, secret, verdict, record,
          deny_unknown_fields

vars == <<request, pc, op, envelope, result, secret, verdict, record,
          deny_unknown_fields>>

\* Highest schema version number a sender declares ("1" .. "MaxVersion").
MaxVersion == 2

\* Number of distinct challenge strings a sender uses.
NumChallenges == 2

\* A field of the body or a header of the request that is not there.
Absent == "<absent>"

\* A header value whose bytes are not valid UTF-8.
InvalidUtf8 == "<0xFF>"

(***************************************************************************)
(* The catalog as the source writes it, one list per place that lists it.  *)
(***************************************************************************)

\* enum EventType: the variant and the wire string serde renames it to.
EventType ==
  <<
    [tag |-> "ChannelUpdate", wire |-> "channel.update"],
    [tag |-> "ChannelFollow", wire |-> "channel.follow"],
    [tag |-> "ChannelSubscribe", wire |-> "channel.subscribe"],
    [tag |-> "ChannelCheer", wire |-> "channel.cheer"],
    [tag |-> "ChannelBan", wire |-> "channel.ban"],
    [tag |-> "ChannelUnban", wire |-> "channel.unban"],
    [tag |-> "ChannelPointsCustomRewardAdd", wire |-> "channel.channel_points_custom_reward.add"],
    [tag |-> "ChannelPointsCustomRewardUpdate", wire |-> "channel.channel_points_custom_reward.update"],
    [tag |-> "ChannelPointsCustomRewardRemove", wire |-> "channel.channel_points_custom_reward.remove"],
    [tag |-> "ChannelPointsCustomRewardRedemptionAdd", wire |-> "channel.channel_points_custom_reward_redemption.add"],
    [tag |-> "ChannelPointsCustomRewardRedemptionUpdate", wire |-> "channel.channel_points_custom_reward_redemption.update"],
    [tag |-> "ChannelPollBegin", wire |-> "channel.poll.begin"],
    [tag |-> "ChannelPollProgress", wire |-> "channel.poll.progress"],
    [tag |-> "ChannelPollEnd", wire |-> "channel.poll.end"],
    [tag |-> "ChannelPredictionBegin", wire |-> "channel.prediction.begin"],
    [tag |-> "ChannelPredictionProgress", wire |-> "channel.prediction.progress"],
    [tag |-> "ChannelPredictionLock", wire |-> "channel.prediction.lock"],
    [tag |-> "ChannelPredictionEnd", wire |-> "channel.prediction.end"],
    [tag |-> "ChannelRaid", wire |-> "channel.raid"],
    [tag |-> "ChannelSubscriptionEnd", wire |-> "channel.subscription.end"],
    [tag |-> "ChannelSubscriptionGift", wire |-> "channel.subscription.gift"],
    [tag |-> "ChannelSubscriptionMessage", wire |-> "channel.subscription.message"],
    [tag |-> "ChannelGoalBegin", wire |-> "channel.goal.begin"],
    [tag |-> "ChannelGoalProgress", wire |-> "channel.goal.progress"],
    [tag |-> "ChannelGoalEnd", wire |-> "channel.goal.end"],
    [tag |-> "ChannelHypeTrainBegin", wire |-> "channel.hype_train.begin"],
    [tag |-> "ChannelHypeTrainProgress", wire |-> "channel.hype_train.progress"],
    [tag |-> "ChannelHypeTrainEnd", wire |-> "channel.hype_train.end"],
    [tag |-> "StreamOnline", wire |-> "stream.online"],
    [tag |-> "StreamOffline", wire |-> "stream.offline"],
    [tag |-> "UserUpdate", wire |-> "user.update"],
    [tag |-> "UserAuthorizationRevoke", wire |-> "user.authorization.revoke"],
    [tag |-> "UserAuthorizationGrant", wire |-> "user.authorization.grant"]
  >>

EventTypeTags == {EventType[i].tag : i \in DOMAIN EventType}

WireStrings == {EventType[i].wire : i \in DOMAIN EventType}

\* serde's derived Deserialize of EventType from a string: the variant whose
\* rename equals the string exactly, an error for any other string.
EventType_deserialize(s) ==
  IF \E i \in DOMAIN EventType : EventType[i].wire = s
  THEN [ok |-> TRUE,
        tag |-> EventType[CHOOSE i \in DOMAIN EventType : EventType[i].wire = s].tag]
  ELSE [ok |-> FALSE, tag |-> ""]

\* enum Event: its variants, in declaration order.
Event ==
  <<
    "ChannelUpdateV1", "ChannelFollowV1",
    "ChannelSubscribeV1", "ChannelCheerV1",
    "ChannelBanV1", "ChannelUnbanV1",
    "ChannelPointsCustomRewardAddV1", "ChannelPointsCustomRewardUpdateV1",
    "ChannelPointsCustomRewardRemoveV1", "ChannelPointsCustomRewardRedemptionAddV1",
    "ChannelPointsCustomRewardRedemptionUpdateV1", "ChannelPollBeginV1",
    "ChannelPollProgressV1", "ChannelPollEndV1",
    "ChannelPredictionBeginV1", "ChannelPredictionProgressV1",
    "ChannelPredictionLockV1", "ChannelPredictionEndV1",
    "ChannelGoalBeginV1", "ChannelGoalProgressV1",
    "ChannelGoalEndV1", "ChannelHypeTrainBeginV1",
    "ChannelHypeTrainProgressV1", "ChannelHypeTrainEndV1",
    "StreamOnlineV1", "StreamOfflineV1",
    "UserUpdateV1", "UserAuthorizationGrantV1",
    "UserAuthorizationRevokeV1", "ChannelRaidV1",
    "ChannelSubscriptionEndV1", "ChannelSubscriptionGiftV1",
    "ChannelSubscriptionMessageV1"
  >>

\* The events listed in the is_thing! macro.
is_thing_events ==
  <<
    "ChannelUpdateV1", "ChannelFollowV1",
    "ChannelSubscribeV1", "ChannelCheerV1",
    "ChannelBanV1", "ChannelUnbanV1",
    "ChannelPointsCustomRewardAddV1", "ChannelPointsCustomRewardUpdateV1",
    "ChannelPointsCustomRewardRemoveV1", "ChannelPointsCustomRewardRedemptionAddV1",
    "ChannelPointsCustomRewardRedemptionUpdateV1", "ChannelPollBeginV1",
    "ChannelPollProgressV1", "ChannelPollEndV1",
    "ChannelPredictionBeginV1", "ChannelPredictionProgressV1",
    "ChannelPredictionLockV1", "ChannelPredictionEndV1",
    "ChannelRaidV1", "ChannelSubscriptionEndV1",
    "ChannelSubscriptionGiftV1", "ChannelSubscriptionMessageV1",
    "ChannelGoalBeginV1", "ChannelGoalProgressV1",
    "ChannelGoalEndV1", "ChannelHypeTrainBeginV1",
    "ChannelHypeTrainProgressV1", "ChannelHypeTrainEndV1",
    "StreamOnlineV1", "StreamOfflineV1",
    "UserUpdateV1", "UserAuthorizationGrantV1",
    "UserAuthorizationRevokeV1"
  >>

\* The variants that have an arm in Event::get_verification_request.
get_verification_request_arms ==
  <<
    "ChannelUpdateV1", "ChannelFollowV1",
    "ChannelSubscribeV1", "ChannelCheerV1",
    "ChannelBanV1", "ChannelUnbanV1",
    "ChannelPointsCustomRewardAddV1", "ChannelPointsCustomRewardUpdateV1",
    "ChannelPointsCustomRewardRemoveV1", "ChannelPointsCustomRewardRedemptionAddV1",
    "ChannelPointsCustomRewardRedemptionUpdateV1", "ChannelPollBeginV1",
    "ChannelPollProgressV1", "ChannelPollEndV1",
    "ChannelPredictionBeginV1", "ChannelPredictionProgressV1",
    "ChannelPredictionLockV1", "ChannelPredictionEndV1",
    "ChannelGoalBeginV1", "ChannelGoalProgressV1",
    "ChannelGoalEndV1", "ChannelHypeTrainBeginV1",
    "ChannelHypeTrainProgressV1", "ChannelHypeTrainEndV1",
    "StreamOnlineV1", "StreamOfflineV1",
    "UserUpdateV1", "UserAuthorizationGrantV1",
    "UserAuthorizationRevokeV1", "ChannelRaidV1",
    "ChannelSubscriptionEndV1", "ChannelSubscriptionGiftV1",
    "ChannelSubscriptionMessageV1"
  >>

\* The list of Event::subscription without its last event.
subscription_events_short ==
  SubSeq(get_verification_request_arms, 1, Len(get_verification_request_arms) - 1)

\* The events listed in Event::subscription.
subscription_events ==
  <<
    "ChannelUpdateV1", "ChannelFollowV1",
    "ChannelSubscribeV1", "ChannelCheerV1",
    "ChannelBanV1", "ChannelUnbanV1",
    "ChannelPointsCustomRewardAddV1", "ChannelPointsCustomRewardUpdateV1",
    "ChannelPointsCustomRewardRemoveV1", "ChannelPointsCustomRewardRedemptionAddV1",
    "ChannelPointsCustomRewardRedemptionUpdateV1", "ChannelPollBeginV1",
    "ChannelPollProgressV1", "ChannelPollEndV1",
    "ChannelPredictionBeginV1", "ChannelPredictionProgressV1",
    "ChannelPredictionLockV1", "ChannelPredictionEndV1",
    "ChannelRaidV1", "ChannelSubscriptionEndV1",
    "ChannelSubscriptionGiftV1", "ChannelSubscriptionMessageV1",
    "ChannelGoalBeginV1", "ChannelGoalProgressV1",
    "ChannelGoalEndV1", "ChannelHypeTrainBeginV1",
    "ChannelHypeTrainProgressV1", "ChannelHypeTrainEndV1",
    "StreamOnlineV1", "StreamOfflineV1",
    "UserUpdateV1", "UserAuthorizationGrantV1",
    "UserAuthorizationRevokeV1"
  >>

\* The routing table of Event::parse_request without one event.
parse_request_events_short ==
  SubSeq(subscription_events, 1, Len(subscription_events) - 1)

\* The events listed in the routing table of Event::parse_request, in match order.
parse_request_events ==
  <<
    "ChannelUpdateV1", "ChannelFollowV1",
    "ChannelSubscribeV1", "ChannelCheerV1",
    "ChannelBanV1", "ChannelUnbanV1",
    "ChannelPointsCustomRewardAddV1", "ChannelPointsCustomRewardUpdateV1",
    "ChannelPointsCustomRewardRemoveV1", "ChannelPointsCustomRewardRedemptionAddV1",
    "ChannelPointsCustomRewardRedemptionUpdateV1", "ChannelPollBeginV1",
    "ChannelPollProgressV1", "ChannelPollEndV1",
    "ChannelPredictionBeginV1", "ChannelPredictionProgressV1",
    "ChannelPredictionLockV1", "ChannelPredictionEndV1",
    "ChannelRaidV1", "ChannelSubscriptionEndV1",
    "ChannelSubscriptionGiftV1", "ChannelSubscriptionMessageV1",
    "ChannelGoalBeginV1", "ChannelGoalProgressV1",
    "ChannelGoalEndV1", "ChannelHypeTrainBeginV1",
    "ChannelHypeTrainProgressV1", "ChannelHypeTrainEndV1",
    "StreamOnlineV1", "StreamOfflineV1",
    "UserUpdateV1", "UserAuthorizationGrantV1",
    "UserAuthorizationRevokeV1"
  >>

\* The associated constants of each event's EventSubscription implementation.
EventSubscription ==
  <<
    [event |-> "ChannelUpdateV1", VERSION |-> "1", EVENT_TYPE |-> "ChannelUpdate"],
    [event |-> "ChannelFollowV1", VERSION |-> "1", EVENT_TYPE |-> "ChannelFollow"],
    [event |-> "ChannelSubscribeV1", VERSION |-> "1", EVENT_TYPE |-> "ChannelSubscribe"],
    [event |-> "ChannelCheerV1", VERSION |-> "1", EVENT_TYPE |-> "ChannelCheer"],
    [event |-> "ChannelBanV1", VERSION |-> "1", EVENT_TYPE |-> "ChannelBan"],
    [event |-> "ChannelUnbanV1", VERSION |-> "1", EVENT_TYPE |-> "ChannelUnban"],
    [event |-> "ChannelPointsCustomRewardAddV1", VERSION |-> "1", EVENT_TYPE |-> "ChannelPointsCustomRewardAdd"],
    [event |-> "ChannelPointsCustomRewardUpdateV1", VERSION |-> "1", EVENT_TYPE |-> "ChannelPointsCustomRewardUpdate"],
    [event |-> "ChannelPointsCustomRewardRemoveV1", VERSION |-> "1", EVENT_TYPE |-> "ChannelPointsCustomRewardRemove"],
    [event |-> "ChannelPointsCustomRewardRedemptionAddV1", VERSION |-> "1", EVENT_TYPE |-> "ChannelPointsCustomRewardRedemptionAdd"],
    [event |-> "ChannelPointsCustomRewardRedemptionUpdateV1", VERSION |-> "1", EVENT_TYPE |-> "ChannelPointsCustomRewardRedemptionUpdate"],
    [event |-> "ChannelPollBeginV1", VERSION |-> "1", EVENT_TYPE |-> "ChannelPollBegin"],
    [event |-> "ChannelPollProgressV1", VERSION |-> "1", EVENT_TYPE |-> "ChannelPollProgress"],
    [event |-> "ChannelPollEndV1", VERSION |-> "1", EVENT_TYPE |-> "ChannelPollEnd"],
    [event |-> "ChannelPredictionBeginV1", VERSION |-> "1", EVENT_TYPE |-> "ChannelPredictionBegin"],
    [event |-> "ChannelPredictionProgressV1", VERSION |-> "1", EVENT_TYPE |-> "ChannelPredictionProgress"],
    [event |-> "ChannelPredictionLockV1", VERSION |-> "1", EVENT_TYPE |-> "ChannelPredictionLock"],
    [event |-> "ChannelPredictionEndV1", VERSION |-> "1", EVENT_TYPE |-> "ChannelPredictionEnd"],
    [event |-> "ChannelRaidV1", VERSION |-> "1", EVENT_TYPE |-> "ChannelRaid"],
    [event |-> "ChannelSubscriptionEndV1", VERSION |-> "1", EVENT_TYPE |-> "ChannelSubscriptionEnd"],
    [event |-> "ChannelSubscriptionGiftV1", VERSION |-> "1", EVENT_TYPE |-> "ChannelSubscriptionGift"],
    [event |-> "ChannelSubscriptionMessageV1", VERSION |-> "1", EVENT_TYPE |-> "ChannelSubscriptionMessage"],
    [event |-> "ChannelGoalBeginV1", VERSION |-> "1", EVENT_TYPE |-> "ChannelGoalBegin"],
    [event |-> "ChannelGoalProgressV1", VERSION |-> "1", EVENT_TYPE |-> "ChannelGoalProgress"],
    [event |-> "ChannelGoalEndV1", VERSION |-> "1", EVENT_TYPE |-> "ChannelGoalEnd"],
    [event |-> "ChannelHypeTrainBeginV1", VERSION |-> "1", EVENT_TYPE |-> "ChannelHypeTrainBegin"],
    [event |-> "ChannelHypeTrainProgressV1", VERSION |-> "1", EVENT_TYPE |-> "ChannelHypeTrainProgress"],
    [event |-> "ChannelHypeTrainEndV1", VERSION |-> "1", EVENT_TYPE |-> "ChannelHypeTrainEnd"],
    [event |-> "StreamOnlineV1", VERSION |-> "1", EVENT_TYPE |-> "StreamOnline"],
    [event |-> "StreamOfflineV1", VERSION |-> "1", EVENT_TYPE |-> "StreamOffline"],
    [event |-> "UserUpdateV1", VERSION |-> "1", EVENT_TYPE |-> "UserUpdate"],
    [event |-> "UserAuthorizationGrantV1", VERSION |-> "1", EVENT_TYPE |-> "UserAuthorizationGrant"],
    [event |-> "UserAuthorizationRevokeV1", VERSION |-> "1", EVENT_TYPE |-> "UserAuthorizationRevoke"]
  >>

VERSION(event) ==
  EventSubscription[CHOOSE i \in DOMAIN EventSubscription :
                      EventSubscription[i].event = event].VERSION

EVENT_TYPE(event) ==
  EventSubscription[CHOOSE i \in DOMAIN EventSubscription :
                      EventSubscription[i].event = event].EVENT_TYPE

(***************************************************************************)
(* Values: errors, results, payloads.                                      *)
(***************************************************************************)

\* enum PayloadParseError, as far as event.rs builds it.
MalformedEvent == [kind |-> "MalformedEvent", version |-> "", event_type |-> ""]

UnknownEventType(ty) == [kind |-> "UnknownEventType", version |-> "", event_type |-> ty]

UnimplementedEvent(v, e) == [kind |-> "UnimplementedEvent", version |-> v, event_type |-> e]

DeserializeError == [kind |-> "DeserializeError", version |-> "", event_type |-> ""]

NoError == [kind |-> "", version |-> "", event_type |-> ""]

NoMessage == [kind |-> "", challenge |-> "", event |-> ""]

\* The fields of a subscription block beside type and version.  The
\* condition is kept as its JSON text.
Block(id, status, cost, created_at, transport, condition) ==
  [id |-> id, status |-> status, cost |-> cost, created_at |-> created_at,
   transport |-> transport, condition |-> condition]

NoBlock == Block("", "", 0, "", "", "")

NoSubscription == [type |-> "", version |-> "", rest |-> FALSE, block |-> NoBlock]

NoEvent == [variant |-> "", subscription |-> NoSubscription, message |-> NoMessage]

Ok(e) == [tag |-> "Ok", event |-> e, error |-> NoError]

Err(x) == [tag |-> "Err", event |-> NoEvent, error |-> x]

NoResult == [tag |-> "", event |-> NoEvent, error |-> NoError]

\* The routing triple an envelope parser returns, or its error.
Triple(v, e, m) ==
  [tag |-> "Ok", version |-> v, event_type |-> e, message_type |-> m, error |-> NoError]

TripleErr(x) ==
  [tag |-> "Err", version |-> "", event_type |-> "", message_type |-> "", error |-> x]

NoEnvelope ==
  [tag |-> "", version |-> "", event_type |-> "", message_type |-> "", error |-> NoError]

(***************************************************************************)
(* Conversions into PayloadParseError done by the `?` operator.            *)
(***************************************************************************)

\* From<DeserError>: the error of parse_json on the minimal envelope shape.
\* cause is what serde reports first; ty is the rejected type string.
PayloadParseError_from_deser(cause, ty) ==
  IF cause = "unknown_variant" THEN UnknownEventType(ty) ELSE MalformedEvent

\* From<Utf8Error>: a routing header that is not valid text.
PayloadParseError_from_utf8 == MalformedEvent

(***************************************************************************)
(* Envelope parser, text path.                                             *)
(***************************************************************************)

\* Deserialize of Option<Empty>, Empty being a struct without fields: a
\* missing field and null give None, a JSON object gives Some, any other
\* JSON value (a string, a number) is a type error.
Option_Empty(kind) ==
  CASE kind \in {"absent", "null"} -> [ok |-> TRUE, some |-> FALSE]
    [] kind = "object"             -> [ok |-> TRUE, some |-> TRUE]
    [] OTHER                       -> [ok |-> FALSE, some |-> FALSE]

\* IEvent with a version that may be missing and then reads as "".
IEvent_version_optional(source) ==
  LET fail(c) == [ok |-> FALSE, cause |-> c, type_ |-> "", version |-> "",
                  challenge |-> FALSE, event |-> FALSE]
      ty == EventType_deserialize(source.type)
      ch == Option_Empty(source.challenge_kind)
      ev == Option_Empty(source.event)
  IN  IF ~source.json THEN fail("syntax")
      ELSE IF source.sub /\ source.type # Absent /\ ~ty.ok THEN fail("unknown_variant")
      ELSE IF source.sub /\ source.type = Absent THEN fail("missing_field")
      ELSE IF ~ch.ok \/ ~ev.ok THEN fail("invalid_type")
      ELSE IF ~source.sub THEN fail("missing_field")
      ELSE [ok |-> TRUE, cause |-> "", type_ |-> ty.tag,
            version |-> IF source.version = Absent THEN "" ELSE source.version,
            challenge |-> ch.some, event |-> ev.some]

\* IEvent and IEventSubscripionInformation with serde(deny_unknown_fields).
IEvent_deny_unknown_fields(source) ==
  LET fail(c) == [ok |-> FALSE, cause |-> c, type_ |-> "", version |-> "",
                  challenge |-> FALSE, event |-> FALSE]
      ty == EventType_deserialize(source.type)
      ch == Option_Empty(source.challenge_kind)
      ev == Option_Empty(source.event)
  IN  IF ~source.json THEN fail("syntax")
      ELSE IF source.sub /\ source.type # Absent /\ ~ty.ok THEN fail("unknown_variant")
      ELSE IF source.sub /\ (source.rest \/ source.extra_sub) THEN fail("unknown_field")
      ELSE IF source.sub /\ (source.type = Absent \/ source.version = Absent)
           THEN fail("missing_field")
      ELSE IF ~ch.ok \/ ~ev.ok THEN fail("invalid_type")
      ELSE IF source.extra_top THEN fail("unknown_field")
      ELSE IF ~source.sub THEN fail("missing_field")
      ELSE [ok |-> TRUE, cause |-> "", type_ |-> ty.tag, version |-> source.version,
            challenge |-> ch.some, event |-> ev.some]

\* parse_json::<IEvent>(source, false): the fields are read in the order of
\* the body (the subscription block first), the first error ends the parse,
\* and a missing required field is reported when its object ends.
IEvent(source) ==
  LET fail(c) == [ok |-> FALSE, cause |-> c, type_ |-> "", version |-> "",
                  challenge |-> FALSE, event |-> FALSE]
      ty == EventType_deserialize(source.type)
      ch == Option_Empty(source.challenge_kind)
      ev == Option_Empty(source.event)
  IN  IF ~source.json THEN fail("syntax")
      ELSE IF source.sub /\ source.type # Absent /\ ~ty.ok THEN fail("unknown_variant")
      ELSE IF source.sub /\ (source.type = Absent \/ source.version = Absent)
           THEN fail("missing_field")
      ELSE IF ~ch.ok \/ ~ev.ok THEN fail("invalid_type")
      ELSE IF ~source.sub THEN fail("missing_field")
      ELSE [ok |-> TRUE, cause |-> "", type_ |-> ty.tag, version |-> source.version,
            challenge |-> ch.some, event |-> ev.some]

get_version_event_type_and_message_type_from_text(source) ==
  LET i == IEvent(source)
  IN  IF ~i.ok THEN TripleErr(PayloadParseError_from_deser(i.cause, source.type))
      ELSE IF i.event THEN Triple(i.version, i.type_, "notification")
      ELSE IF i.challenge THEN Triple(i.version, i.type_, "webhook_callback_verification")
      ELSE Triple(i.version, i.type_, "revocation")

(***************************************************************************)
(* Envelope parser, HTTP path.                                             *)
(***************************************************************************)

\* The HTTP envelope parser taking a missing message type header for a notification.
from_http_default_message_type(req) ==
  LET ty == req.headers.subscription_type
      version == req.headers.subscription_version
      message_type == IF req.headers.message_type = Absent THEN "notification"
                      ELSE req.headers.message_type
  IN  IF ty = InvalidUtf8 \/ version = InvalidUtf8 THEN TripleErr(PayloadParseError_from_utf8)
      ELSE IF ty # Absent /\ version # Absent
           THEN IF EventType_deserialize(ty).ok
                THEN Triple(version, EventType_deserialize(ty).tag, message_type)
                ELSE TripleErr(UnknownEventType(ty))
      ELSE TripleErr(MalformedEvent)

\* The HTTP envelope parser reading the version header as bytes, as it reads
\* the message type header, without the UTF-8 check.
from_http_version_unchecked(req) ==
  LET ty == req.headers.subscription_type
      version == req.headers.subscription_version
      message_type == req.headers.message_type
  IN  IF ty = InvalidUtf8 THEN TripleErr(PayloadParseError_from_utf8)
      ELSE IF ty # Absent /\ version # Absent /\ message_type # Absent
           THEN IF EventType_deserialize(ty).ok
                THEN Triple(version, EventType_deserialize(ty).tag, message_type)
                ELSE TripleErr(UnknownEventType(ty))
      ELSE TripleErr(MalformedEvent)

\* The HTTP envelope parser reporting an unknown type string as a malformed event.
from_http_unknown_as_malformed(req) ==
  LET ty == req.headers.subscription_type
      version == req.headers.subscription_version
      message_type == req.headers.message_type
  IN  IF ty = InvalidUtf8 \/ version = InvalidUtf8 THEN TripleErr(PayloadParseError_from_utf8)
      ELSE IF ty # Absent /\ version # Absent /\ message_type # Absent
                /\ EventType_deserialize(ty).ok
           THEN Triple(version, EventType_deserialize(ty).tag, message_type)
      ELSE TripleErr(MalformedEvent)

\* The HTTP envelope parser taking the type from the subscription block of
\* the body when the body has one.
from_http_type_from_body(req) ==
  LET ty == IF req.body.type # Absent THEN req.body.type
            ELSE req.headers.subscription_type
      version == req.headers.subscription_version
      message_type == req.headers.message_type
  IN  IF ty = InvalidUtf8 \/ version = InvalidUtf8 THEN TripleErr(PayloadParseError_from_utf8)
      ELSE IF ty # Absent /\ version # Absent /\ message_type # Absent
           THEN IF EventType_deserialize(ty).ok
                THEN Triple(version, EventType_deserialize(ty).tag, message_type)
                ELSE TripleErr(UnknownEventType(ty))
      ELSE TripleErr(MalformedEvent)

\* The HTTP envelope parser deserializing the type header before it looks
\* for the other two headers.
from_http_type_first(req) ==
  LET ty == req.headers.subscription_type
      version == req.headers.subscription_version
      message_type == req.headers.message_type
  IN  IF ty = InvalidUtf8 \/ version = InvalidUtf8 THEN TripleErr(PayloadParseError_from_utf8)
      ELSE IF ty # Absent /\ ~EventType_deserialize(ty).ok
           THEN TripleErr(UnknownEventType(ty))
      ELSE IF ty # Absent /\ version # Absent /\ message_type # Absent
           THEN Triple(version, EventType_deserialize(ty).tag, message_type)
      ELSE TripleErr(MalformedEvent)

get_version_event_type_and_message_type_from_http(req) ==
  LET ty == req.headers.subscription_type
      version == req.headers.subscription_version
      message_type == req.headers.message_type
  IN  IF ty = InvalidUtf8 THEN TripleErr(PayloadParseError_from_utf8)
      ELSE IF version = InvalidUtf8 THEN TripleErr(PayloadParseError_from_utf8)
      ELSE IF ty # Absent /\ version # Absent /\ message_type # Absent
           THEN IF EventType_deserialize(ty).ok
                THEN Triple(version, EventType_deserialize(ty).tag, message_type)
                ELSE TripleErr(UnknownEventType(ty))
      ELSE TripleErr(MalformedEvent)

(***************************************************************************)
(* Payload dispatcher.                                                     *)
(***************************************************************************)

\* Payload::<E>::parse_request(message_type, source): the whole body against
\* the payload schema of event E for the message kind message_type.
Payload_parse_request(event, message_type, source) ==
  LET block == source.json /\ source.sub /\ source.rest
               /\ source.type \in WireStrings /\ source.version # Absent
               /\ ~(deny_unknown_fields /\ (source.extra_top \/ source.extra_sub))
      sub == [type |-> source.type, version |-> source.version, rest |-> source.rest,
              block |-> source.block]
      ok(m) == [ok |-> TRUE, subscription |-> sub, message |-> m]
      fail == [ok |-> FALSE, subscription |-> NoSubscription, message |-> NoMessage]
  IN  CASE message_type = "notification" ->
             IF block /\ source.event = "object" /\ source.schema = event
             THEN ok([kind |-> "Notification", challenge |-> "", event |-> source.schema])
             ELSE fail
        [] message_type = "webhook_callback_verification" ->
             IF block /\ source.challenge_kind = "string"
             THEN ok([kind |-> "VerificationRequest", challenge |-> source.challenge,
                      event |-> ""])
             ELSE fail
        [] message_type = "revocation" ->
             IF block THEN ok([kind |-> "Revocation", challenge |-> "", event |-> ""])
             ELSE fail
        [] OTHER -> fail

NoArm == "<no arm>"

\* The match of parse_request: the first arm, in the order of the list, whose
\* (VERSION, EVENT_TYPE) equals (version, event_type); NoArm for the default arm.
\* The match of parse_request comparing the event type alone.
match_event_any_version(version, event_type) ==
  LET hits == {i \in DOMAIN parse_request_events :
                 EVENT_TYPE(parse_request_events[i]) = event_type}
  IN  IF hits = {} THEN NoArm
      ELSE parse_request_events[CHOOSE i \in hits : \A j \in hits : i <= j]

match_event(version, event_type) ==
  LET hits == {i \in DOMAIN parse_request_events :
                 /\ VERSION(parse_request_events[i]) = version
                 /\ EVENT_TYPE(parse_request_events[i]) = event_type}
  IN  IF hits = {} THEN NoArm
      ELSE parse_request_events[CHOOSE i \in hits : \A j \in hits : i <= j]

\* parse_request with a payload error falling through to the default arm.
Event_parse_request_fall_through(version, event_type, message_type, source) ==
  LET arm == match_event(version, event_type)
      p == Payload_parse_request(arm, message_type, source)
  IN  IF arm # NoArm /\ p.ok
      THEN Ok([variant |-> arm, subscription |-> p.subscription, message |-> p.message])
      ELSE Err(UnimplementedEvent(version, event_type))

\* parse_request deserializing the body before it matches the pair.
Event_parse_request_body_first(version, event_type, message_type, source) ==
  LET arm == match_event(version, event_type)
      p == Payload_parse_request(arm, message_type, source)
  IN  IF ~p.ok THEN Err(DeserializeError)
      ELSE IF arm = NoArm THEN Err(UnimplementedEvent(version, event_type))
      ELSE Ok([variant |-> arm, subscription |-> p.subscription, message |-> p.message])

Event_parse_request(version, event_type, message_type, source) ==
  LET arm == match_event(version, event_type)
      p == Payload_parse_request(arm, message_type, source)
  IN  IF arm = NoArm THEN Err(UnimplementedEvent(version, event_type))
      ELSE IF p.ok
           THEN Ok([variant |-> arm, subscription |-> p.subscription, message |-> p.message])
           ELSE Err(DeserializeError)

Event_parse(source) ==
  LET e == get_version_event_type_and_message_type_from_text(source)
  IN  IF e.tag = "Err" THEN Err(e.error)
      ELSE Event_parse_request(e.version, e.event_type, e.message_type, source)

Event_parse_http(req) ==
  LET e == get_version_event_type_and_message_type_from_http(req)
  IN  IF e.tag = "Err" THEN Err(e.error)
      ELSE Event_parse_request(e.version, e.event_type, e.message_type, req.body)

(***************************************************************************)
(* Classification and accessors of an Event.                               *)
(***************************************************************************)

\* is_thing! with one event left out of its list.
is_thing_missing_event(s, thing) ==
  \E i \in DOMAIN is_thing_events :
    /\ is_thing_events[i] # "UserAuthorizationRevokeV1"
    /\ is_thing_events[i] = s.variant
    /\ s.message.kind = thing

\* is_thing! matching the variant alone, whatever message it wraps.
is_thing_any_message(s, thing) ==
  \E i \in DOMAIN is_thing_events : is_thing_events[i] = s.variant

is_thing(s, thing) ==
  \E i \in DOMAIN is_thing_events :
    is_thing_events[i] = s.variant /\ s.message.kind = thing

is_notification(s) == is_thing(s, "Notification")

is_revocation(s) == is_thing(s, "Revocation")

is_verification_request(s) == is_thing(s, "VerificationRequest")

\* get_verification_request with one arm left out, so that the event falls
\* to the default arm.
get_verification_request_missing_arm(s) ==
  IF \E i \in DOMAIN get_verification_request_arms :
       /\ get_verification_request_arms[i] # "ChannelRaidV1"
       /\ get_verification_request_arms[i] = s.variant
       /\ s.message.kind = "VerificationRequest"
  THEN [some |-> TRUE, challenge |-> s.message.challenge]
  ELSE [some |-> FALSE, challenge |-> ""]

get_verification_request(s) ==
  IF \E i \in DOMAIN get_verification_request_arms :
       get_verification_request_arms[i] = s.variant
       /\ s.message.kind = "VerificationRequest"
  THEN [some |-> TRUE, challenge |-> s.message.challenge]
  ELSE [some |-> FALSE, challenge |-> ""]

\* Payload::<E>::get_event_type() and get_event_version() of the payload an
\* Event variant wraps.
get_event_type(variant) == EVENT_TYPE(variant)

get_event_version(variant) == VERSION(variant)

\* A condition that cannot be resolved.
Unresolvable == "<unresolvable>"

\* subscription.condition.condition(): the condition in normalized form, or
\* an error.
condition(c) ==
  IF c = Unresolvable THEN [ok |-> FALSE, value |-> ""] ELSE [ok |-> TRUE, value |-> c]

EventSubSubscription(cost, cond, created_at, id, status, transport, type_, version) ==
  [tag |-> "Ok", cost |-> cost, condition |-> cond, created_at |-> created_at,
   id |-> id, status |-> status, transport |-> transport, type_ |-> type_,
   version |-> version]

SubscriptionErr == [tag |-> "Err"]

\* subscription() taking type_ and version from the subscription block.
Event_subscription_from_block(s) ==
  IF condition(s.subscription.block.condition).ok
  THEN EventSubSubscription(s.subscription.block.cost,
                            condition(s.subscription.block.condition).value,
                            s.subscription.block.created_at,
                            s.subscription.block.id,
                            s.subscription.block.status,
                            s.subscription.block.transport,
                            EventType_deserialize(s.subscription.type).tag,
                            s.subscription.version)
  ELSE SubscriptionErr

\* subscription() with the condition left as it is when it does not resolve.
Event_subscription_unresolved(s) ==
  EventSubSubscription(s.subscription.block.cost,
                       s.subscription.block.condition,
                       s.subscription.block.created_at,
                       s.subscription.block.id,
                       s.subscription.block.status,
                       s.subscription.block.transport,
                       get_event_type(s.variant),
                       get_event_version(s.variant))

\* Event::subscription(&self).  The match has one arm for each event of its
\* list and no default arm.
Event_subscription(s) ==
  IF \E i \in DOMAIN subscription_events : subscription_events[i] = s.variant
  THEN IF condition(s.subscription.block.condition).ok
       THEN EventSubSubscription(s.subscription.block.cost,
                                 condition(s.subscription.block.condition).value,
                                 s.subscription.block.created_at,
                                 s.subscription.block.id,
                                 s.subscription.block.status,
                                 s.subscription.block.transport,
                                 get_event_type(s.variant),
                                 get_event_version(s.variant))
       ELSE SubscriptionErr
  ELSE [tag |-> NoArm]

(***************************************************************************)
(* The messages a sender can deliver.                                      *)
(***************************************************************************)

VersionStrings == {ToString(n) : n \in 1..MaxVersion} \cup {"01"}

ChallengeStrings == {"c" \o ToString(n) : n \in 1..NumChallenges}

\* Type strings that are no wire string of EventType.
UnknownTypeStrings == {"channel.unknown", "STREAM.ONLINE"}

TypeStrings == WireStrings \cup UnknownTypeStrings

MessageTypes == {"notification", "webhook_callback_verification", "revocation", "other"}

\* The events whose EVENT_TYPE is renamed to the wire string ty.
EventsOfWire(ty) ==
  {EventSubscription[i].event : i \in
     {j \in DOMAIN EventSubscription :
        \E k \in DOMAIN EventType :
          /\ EventType[k].wire = ty
          /\ EventType[k].tag = EventSubscription[j].EVENT_TYPE}}

\* The remaining fields of the subscription block of a delivered message.
WireBlock == Block("x", "enabled", 0, "2020-01-01T00:00:00Z", "{}", "{}")

Body(json, sub, ty, version, rest, event, schema, ck, challenge) ==
  [json |-> json, sub |-> sub, type |-> ty, version |-> version, rest |-> rest,
   block |-> IF rest THEN WireBlock ELSE NoBlock,
   extra_top |-> FALSE, extra_sub |-> FALSE,
   event |-> event, schema |-> schema, challenge_kind |-> ck, challenge |-> challenge]

\* A body that is not JSON.
NotJson == Body(FALSE, FALSE, Absent, Absent, FALSE, "absent", "none", "absent", "")

\* The event field: missing, null, a scalar, an object that fits no event
\* schema, or an object that fits the schema of one event in schemas.
EventFields(schemas) ==
  {<<k, "none">> : k \in {"absent", "null", "scalar", "object"}}
    \cup {<<"object", s>> : s \in schemas}

\* The challenge field: missing, null, an object, or a string.
ChallengeFields ==
  {<<k, "">> : k \in {"absent", "null", "object"}}
    \cup {<<"string", c>> : c \in ChallengeStrings}

\* Bodies with a subscription block declaring ty.
BodiesOfType(ty, versions, events, challenges) ==
  {Body(TRUE, TRUE, ty, v, r, e[1], e[2], c[1], c[2]) :
     v \in versions, r \in BOOLEAN, e \in events, c \in challenges}

\* Bodies without a subscription block.
BodiesWithoutSubscription ==
  {Body(TRUE, FALSE, Absent, Absent, FALSE, e[1], e[2], c[1], c[2]) :
     e \in EventFields({}), c \in ChallengeFields}

TextBodies ==
  {NotJson} \cup BodiesWithoutSubscription
    \cup UNION {BodiesOfType(ty, VersionStrings \cup {Absent},
                             EventFields(EventsOfWire(ty)), ChallengeFields) :
                  ty \in TypeStrings \cup {Absent}}

\* The headers a transport would set for a body: the declared pair and the
\* message type of the body's shape.
HeadersOf(b) ==
  [subscription_type |-> b.type,
   subscription_version |-> b.version,
   message_type |-> IF b.event \in {"object", "scalar"} THEN "notification"
                    ELSE IF b.challenge_kind \in {"string", "object"}
                         THEN "webhook_callback_verification"
                         ELSE "revocation"]

AllHeaders ==
  [subscription_type : TypeStrings \cup {Absent, InvalidUtf8},
   subscription_version : VersionStrings \cup {Absent, InvalidUtf8},
   message_type : MessageTypes \cup {Absent, InvalidUtf8}]

\* The bodies sent along with headers h: the three shapes for the type of
\* the header and for another type, a body that is not JSON and one with
\* no subscription block.
BodiesWith(h) ==
  LET types == (IF h.subscription_type \in TypeStrings
                THEN {h.subscription_type} ELSE {"stream.online"})
                 \cup {"stream.offline"}
      events == {<<"absent", "none">>, <<"object", "none">>}
                  \cup {<<"object", s>> : s \in EventsOfWire(h.subscription_type)}
      challenges == {<<"absent", "">>, <<"string", "c1">>}
  IN  {NotJson, Body(TRUE, FALSE, Absent, Absent, FALSE, "absent", "none", "absent", "")}
        \cup UNION {BodiesOfType(ty, {"1"}, events, challenges) : ty \in types}

Requests ==
  {[headers |-> HeadersOf(b), body |-> b] : b \in TextBodies}
    \cup UNION {{[headers |-> h, body |-> b] : b \in BodiesWith(h)} : h \in AllHeaders}

\* The value of record while Event::subscription has not been called.
NoRecord == [tag |-> ""]

(***************************************************************************)
(* The state machine: one message arrives and one entry point handles it.  *)
(***************************************************************************)

Init ==
  /\ request \in Requests
  /\ pc = "start"
  /\ op = "none"
  /\ envelope = NoEnvelope
  /\ result = NoResult
  /\ secret = <<>>
  /\ verdict = "none"
  /\ deny_unknown_fields = FALSE
  /\ record = NoRecord

\* Event::parse(source) on the body of the request.
Parse ==
  /\ pc = "start"
  /\ envelope' = get_version_event_type_and_message_type_from_text(request.body)
  /\ result' = Event_parse(request.body)
  /\ op' = "parse"
  /\ pc' = "done"
  /\ UNCHANGED <<request, secret, verdict, record, deny_unknown_fields>>

\* Event::parse_http(request).
ParseHttp ==
  /\ pc = "start"
  /\ envelope' = get_version_event_type_and_message_type_from_http(request)
  /\ result' = Event_parse_http(request)
  /\ op' = "parse_http"
  /\ pc' = "done"
  /\ UNCHANGED <<request, secret, verdict, record, deny_unknown_fields>>

\* Event::parse_request(version, &event_type, message_type, source), called
\* with the triple the headers of the request spell out and its body.
ParseRequest ==
  /\ pc = "start"
  /\ request.headers.subscription_type \in WireStrings
  /\ request.headers.subscription_version \notin {Absent, InvalidUtf8}
  /\ request.headers.message_type # Absent
  /\ LET version == request.headers.subscription_version
         event_type == EventType_deserialize(request.headers.subscription_type).tag
         message_type == request.headers.message_type
     IN  /\ envelope' = Triple(version, event_type, message_type)
         /\ result' = Event_parse_request(version, event_type, message_type, request.body)
  /\ op' = "parse_request"
  /\ pc' = "done"
  /\ UNCHANGED <<request, secret, verdict, record, deny_unknown_fields>>

\* event.subscription() on the Event an entry point returned.
Subscription ==
  /\ pc = "done"
  /\ result.tag = "Ok"
  /\ record' = Event_subscription(result.event)
  /\ pc' = "recorded"
  /\ UNCHANGED <<request, op, envelope, result, secret, verdict, deny_unknown_fields>>

Next == Parse \/ ParseHttp \/ ParseRequest \/ Subscription

Spec == Init /\ [][Next]_vars

TypeOK ==
  /\ request \in Requests
  /\ pc \in {"start", "done", "recorded"}
  /\ op \in {"none", "parse", "parse_http", "parse_request"}
  /\ result.tag \in {"", "Ok", "Err"}
  /\ envelope.tag \in {"", "Ok", "Err"}
  /\ record.tag \in {"", "Ok", "Err"}
  /\ deny_unknown_fields = FALSE

(***************************************************************************)
(* Properties.                                                             *)
(***************************************************************************)

\* The body declares the pair of catalog entry e in a complete subscription block.
DeclaresEntry(b, e) ==
  /\ b.json /\ b.sub /\ b.rest
  /\ EventType_deserialize(b.type).ok
  /\ EventType_deserialize(b.type).tag = e.EVENT_TYPE
  /\ b.version = e.VERSION

\* {"subscription": {...}, "event": {...}} with an event valid for e's schema.
WellFormedNotification(b, e) ==
  /\ DeclaresEntry(b, e)
  /\ b.event = "object" /\ b.schema = e.event
  /\ b.challenge_kind = "absent"

\* {"subscription": {...}, "challenge": "<string>"}, no event field.
WellFormedVerification(b, e) ==
  /\ DeclaresEntry(b, e)
  /\ b.challenge_kind = "string"
  /\ b.event = "absent"

C2_VerificationRoundTrip ==
  (pc = "done" /\ op = "parse") =>
    \A i \in DOMAIN EventSubscription :
      WellFormedVerification(request.body, EventSubscription[i]) =>
        /\ result.tag = "Ok"
        /\ is_verification_request(result.event)
        /\ get_verification_request(result.event)
             = [some |-> TRUE, challenge |-> request.body.challenge]

\* C3: on the text path the message kind follows the shape of the body: a
\* populated event (an object) gives notification, also next to a populated
\* challenge (a string); else a populated challenge gives
\* webhook_callback_verification; else revocation, and a complete body with
\* neither field populated parses to an Event with is_revocation() true.
C3_KindByShape ==
  LET b == request.body
      kind == IF b.event = "object" THEN "notification"
              ELSE IF b.challenge_kind = "string" THEN "webhook_callback_verification"
              ELSE "revocation"
  IN  (/\ pc = "done" /\ op = "parse"
       /\ b.json /\ b.sub /\ b.type \in WireStrings /\ b.version # Absent
       /\ b.event \in {"absent", "null", "object"}
       /\ b.challenge_kind \in {"absent", "null", "string"}) =>
        /\ envelope.tag = "Ok"
        /\ envelope.message_type = kind
        /\ (kind = "revocation" /\ b.rest /\ b.version = "1") =>
             (result.tag = "Ok" /\ is_revocation(result.event))

\* The catalog entries whose (VERSION, EVENT_TYPE) is the pair (v, e).
EntriesOf(v, e) ==
  {EventSubscription[i].event : i \in
     {j \in DOMAIN EventSubscription :
        EventSubscription[j].VERSION = v /\ EventSubscription[j].EVENT_TYPE = e}}

\* C4: Event::parse_request returns variant X only if the given (version,
\* event type) equals X's (VERSION, EVENT_TYPE), and the pair alone decides
\* the variant: whatever the message type and the body, an Ok result holds
\* the one entry of that pair.
C4_VariantByPair ==
  (pc = "done" /\ op = "parse_request" /\ result.tag = "Ok") =>
    /\ VERSION(result.event.variant) = envelope.version
    /\ EVENT_TYPE(result.event.variant) = envelope.event_type
    /\ EntriesOf(envelope.version, envelope.event_type) = {result.event.variant}

C4_Witness ==
  /\ pc = "done" /\ op = "parse_request"
  /\ envelope.version = "1" /\ envelope.event_type = "StreamOnline"
  /\ envelope.message_type = "revocation"
  /\ request.body.type = "stream.offline"
  /\ result.tag = "Ok"
  /\ result.event.variant = "StreamOnlineV1"

\* What the message declares to the entry point that handled it: the type
\* and version of a body of one of the three shapes on the text path, of
\* the routing headers on the HTTP path, the arguments of parse_request.
Declared ==
  LET b == request.body
      h == request.headers
      none == [ok |-> FALSE, type |-> "", version |-> ""]
  IN  CASE op = "parse" ->
             IF /\ b.json /\ b.sub /\ b.type \in TypeStrings /\ b.version # Absent
                /\ b.event \in {"absent", "object"}
                /\ b.challenge_kind \in {"absent", "string"}
             THEN [ok |-> TRUE, type |-> b.type, version |-> b.version]
             ELSE none
        [] op = "parse_http" ->
             IF /\ h.subscription_type \in TypeStrings
                /\ h.subscription_version \in VersionStrings
                /\ h.message_type \notin {Absent, InvalidUtf8}
             THEN [ok |-> TRUE, type |-> h.subscription_type,
                   version |-> h.subscription_version]
             ELSE none
        [] op = "parse_request" ->
             [ok |-> TRUE, type |-> h.subscription_type,
              version |-> h.subscription_version]
        [] OTHER -> none

\* C5: when the declared type is a recognized tag and the declared version
\* matches no catalog entry of that tag, parsing fails, on the text path, the
\* HTTP path and in parse_request, with UnimplementedEvent carrying exactly
\* the declared version string and the declared tag.
C5_UnimplementedEchoes ==
  (/\ pc = "done" /\ Declared.ok
   /\ Declared.type \in WireStrings
   /\ EntriesOf(Declared.version, EventType_deserialize(Declared.type).tag) = {}) =>
     result = Err(UnimplementedEvent(Declared.version,
                                     EventType_deserialize(Declared.type).tag))

C8_HttpMissingHeader ==
  LET h == request.headers
  IN  (/\ pc = "done" /\ op = "parse_http"
       /\ (\/ h.subscription_type = Absent
           \/ h.subscription_version = Absent
           \/ h.message_type = Absent)) =>
        result = Err(MalformedEvent)

C8_Witness ==
  /\ pc = "done" /\ op = "parse_http"
  /\ request.headers.subscription_type = "stream.online"
  /\ request.headers.subscription_version = "1"
  /\ request.headers.message_type = Absent
  /\ request.body.event = "object" /\ request.body.schema = "StreamOnlineV1"
  /\ request.body.rest
  /\ result = Err(MalformedEvent)

MaxFieldLen == 1

\* Length of the MAC, in bytes.
MacLen == 2

\* The byte values message ids, timestamps, bodies and secrets are made of.
Bytes == {1, 2}

SeqsUpTo(S, n) == UNION {[1..k -> S] : k \in 0..n}

RECURSIVE Pow(_, _)
Pow(b, n) == IF n = 0 THEN 1 ELSE b * Pow(b, n - 1)

\* A byte string as a number, one-to-one.
RECURSIVE Enc(_)
Enc(s) == IF s = <<>> THEN 0 ELSE Head(s) + 3 * Enc(Tail(s))

\* Hmac::<Sha256>::new_from_slice(key), update(message), finalize: no two
\* (key, message) pairs of the model share a MAC.
Hmac_Sha256(key, message) ==
  LET code == Enc(key) * Pow(3, 3 * MaxFieldLen + 1) + Enc(message)
  IN  [i \in 1..MacLen |-> (code \div Pow(256, MacLen - i)) % 256]

HexLowerDigits ==
  <<"0", "1", "2", "3", "4", "5", "6", "7", "8", "9", "a", "b", "c", "d", "e", "f">>

HexUpperDigits ==
  <<"0", "1", "2", "3", "4", "5", "6", "7", "8", "9", "A", "B", "C", "D", "E", "F">>

\* char::to_digit(16): the value of a hexadecimal digit, -1 for any other character.
to_digit(c) ==
  IF \E i \in 1..16 : HexLowerDigits[i] = c
  THEN (CHOOSE i \in 1..16 : HexLowerDigits[i] = c) - 1
  ELSE IF \E i \in 1..16 : HexUpperDigits[i] = c
       THEN (CHOOSE i \in 1..16 : HexUpperDigits[i] = c) - 1
       ELSE -1

\* u8::from_str_radix(src, 16) on a two-character string: an optional "+"
\* sign followed by hexadecimal digits.
from_str_radix(src) ==
  LET err == [ok |-> FALSE, value |-> 0]
  IN  IF src[1] = "+"
      THEN IF to_digit(src[2]) >= 0 THEN [ok |-> TRUE, value |-> to_digit(src[2])] ELSE err
      ELSE IF to_digit(src[1]) >= 0 /\ to_digit(src[2]) >= 0
           THEN [ok |-> TRUE, value |-> 16 * to_digit(src[1]) + to_digit(src[2])]
           ELSE err

\* (0..len).step_by(2).map(|i| from_str_radix(&signature[i..i + 2], 16))
\* collected into a Result: the pairs are decoded in order, the first error
\* ends the decoding, and a slice that runs past the end of the string panics.
RECURSIVE decode_hex(_)
decode_hex(signature) ==
  IF signature = <<>> THEN [tag |-> "Ok", bytes |-> <<>>]
  ELSE IF Len(signature) < 2 THEN [tag |-> "Panic", bytes |-> <<>>]
  ELSE LET b == from_str_radix(SubSeq(signature, 1, 2))
           rest == decode_hex(SubSeq(signature, 3, Len(signature)))
       IN  IF ~b.ok THEN [tag |-> "Err", bytes |-> <<>>]
           ELSE IF rest.tag = "Ok"
                THEN [tag |-> "Ok", bytes |-> <<b.value>> \o rest.bytes]
                ELSE rest

\* Hmac::new_from_slice(key): HMAC takes a key of any length, the empty key
\* included, so the expect("") that follows it does not panic.
new_from_slice(key) == IF Len(key) >= 0 THEN "Ok" ELSE "InvalidLength"

SHA_HEADER == "sha256="

MessageAndSignature(tag, message, signature) ==
  [tag |-> tag, message |-> message, signature |-> signature]

\* message_and_signature built with the timestamp before the message id.
message_and_signature_timestamp_first(req) ==
  LET id == req.headers.message_id
      timestamp == req.headers.message_timestamp
      sig == req.headers.message_signature
      none == MessageAndSignature("None", <<>>, <<>>)
      d == decode_hex(sig.suffix)
  IN  IF ~id.present \/ ~timestamp.present \/ ~sig.present \/ ~sig.text THEN none
      ELSE IF sig.prefix # SHA_HEADER THEN none
      ELSE IF Len(sig.suffix) % 2 # 0 THEN none
      ELSE IF d.tag = "Ok"
           THEN MessageAndSignature("Some", timestamp.value \o id.value \o req.body, d.bytes)
           ELSE none

\* message_and_signature leaving the timestamp out of the message.
message_and_signature_without_timestamp(req) ==
  LET id == req.headers.message_id
      timestamp == req.headers.message_timestamp
      sig == req.headers.message_signature
      none == MessageAndSignature("None", <<>>, <<>>)
      d == decode_hex(sig.suffix)
  IN  IF ~id.present \/ ~timestamp.present \/ ~sig.present \/ ~sig.text THEN none
      ELSE IF sig.prefix # SHA_HEADER THEN none
      ELSE IF Len(sig.suffix) % 2 # 0 THEN none
      ELSE IF d.tag = "Ok"
           THEN MessageAndSignature("Some", id.value \o req.body, d.bytes)
           ELSE none

\* message_and_signature without the test of the "sha256=" prefix.
message_and_signature_any_prefix(req) ==
  LET id == req.headers.message_id
      timestamp == req.headers.message_timestamp
      sig == req.headers.message_signature
      none == MessageAndSignature("None", <<>>, <<>>)
      d == decode_hex(sig.suffix)
  IN  IF ~id.present \/ ~timestamp.present \/ ~sig.present \/ ~sig.text THEN none
      ELSE IF Len(sig.suffix) % 2 # 0 THEN none
      ELSE IF d.tag = "Ok"
           THEN MessageAndSignature("Some", id.value \o timestamp.value \o req.body, d.bytes)
           ELSE none

\* message_and_signature without the test of the even length.
message_and_signature_any_length(req) ==
  LET id == req.headers.message_id
      timestamp == req.headers.message_timestamp
      sig == req.headers.message_signature
      none == MessageAndSignature("None", <<>>, <<>>)
      d == decode_hex(sig.suffix)
  IN  IF ~id.present \/ ~timestamp.present \/ ~sig.present \/ ~sig.text THEN none
      ELSE IF sig.prefix # SHA_HEADER THEN none
      ELSE IF d.tag = "Ok"
           THEN MessageAndSignature("Some", id.value \o timestamp.value \o req.body, d.bytes)
           ELSE IF d.tag = "Panic" THEN MessageAndSignature("Panic", <<>>, <<>>)
           ELSE none

message_and_signature(req) ==
  LET id == req.headers.message_id
      timestamp == req.headers.message_timestamp
      sig == req.headers.message_signature
      none == MessageAndSignature("None", <<>>, <<>>)
      d == decode_hex(sig.suffix)
  IN  IF ~id.present THEN none
      ELSE IF ~timestamp.present THEN none
      ELSE IF ~sig.present \/ ~sig.text THEN none
      ELSE IF sig.prefix # SHA_HEADER THEN none
      ELSE IF Len(sig.suffix) % 2 = 0
           THEN IF d.tag = "Ok"
                THEN MessageAndSignature("Some", id.value \o timestamp.value \o req.body,
                                         d.bytes)
                ELSE IF d.tag = "Panic" THEN MessageAndSignature("Panic", <<>>, <<>>)
                ELSE none
           ELSE none

\* Event::verify_payload(request, secret): "true", "false", or "panic" when
\* the call does not return.
Event_verify_payload(req, key) ==
  LET ms == message_and_signature(req)
  IN  IF ms.tag = "Some"
      THEN IF new_from_slice(key) # "Ok" THEN "panic"
           ELSE IF ms.signature = Hmac_Sha256(key, ms.message) THEN "true" ELSE "false"
      ELSE IF ms.tag = "Panic" THEN "panic"
      ELSE "false"

(***************************************************************************)
(* The requests a sender can deliver to the verifier.                      *)
(***************************************************************************)

ByteStrings == SeqsUpTo(Bytes, MaxFieldLen)

Header(value) == [present |-> TRUE, value |-> value]

NoHeader == [present |-> FALSE, value |-> <<>>]

SignatureHeader(prefix, suffix) ==
  [present |-> TRUE, text |-> TRUE, prefix |-> prefix, suffix |-> suffix]

NoSignatureHeader == [present |-> FALSE, text |-> FALSE, prefix |-> "", suffix |-> <<>>]

\* A signature header with a byte outside visible ASCII: HeaderValue::to_str fails.
OpaqueSignatureHeader == [present |-> TRUE, text |-> FALSE, prefix |-> "", suffix |-> <<>>]

\* The lowercase and the uppercase hexadecimal text of a byte string.
hex(digits, bytes) ==
  [i \in 1..(2 * Len(bytes)) |->
     IF i % 2 = 1 THEN digits[(bytes[(i + 1) \div 2] \div 16) + 1]
     ELSE digits[(bytes[i \div 2] % 16) + 1]]

\* The text with every leading "0" of a pair written as "+".
plus_for_zero(text) ==
  [i \in 1..Len(text) |-> IF i % 2 = 1 /\ text[i] = "0" THEN "+" ELSE text[i]]

\* The messages one step away from message: a byte changed, added or dropped.
Tampered(message) ==
  {[message EXCEPT ![i] = 3 - message[i]] : i \in 1..Len(message)}
    \cup {message \o <<1>>}
    \cup (IF message = <<>> THEN {} ELSE {Tail(message)})

\* The secrets one step away from key.
OtherSecrets(key) ==
  {[key EXCEPT ![i] = 3 - key[i]] : i \in 1..Len(key)} \cup {key \o <<2>>}

\* The signature headers sent with (id, timestamp, body) to a receiver
\* holding key: the header of the authentic sender, the same MAC in other
\* spellings, the MAC of a tampered message or of another secret, and
\* malformed values.
SignatureHeaders(id, timestamp, body, key) ==
  LET message == id \o timestamp \o body
      good == hex(HexLowerDigits, Hmac_Sha256(key, message))
      macs == {Hmac_Sha256(key, m) : m \in Tampered(message)}
                \cup {Hmac_Sha256(k, message) : k \in OtherSecrets(key)}
  IN  {NoSignatureHeader, OpaqueSignatureHeader}
        \cup {SignatureHeader(p, good) : p \in {SHA_HEADER, "SHA256=", "sha1=", ""}}
        \cup {SignatureHeader(SHA_HEADER, s) :
                s \in {hex(HexUpperDigits, Hmac_Sha256(key, message)),
                       plus_for_zero(good),
                       Tail(good),
                       good \o <<"0">>,
                       good \o <<"0", "0">>,
                       SubSeq(good, 1, 2),
                       <<>>,
                       <<"g">> \o Tail(good),
                       <<"+", "+">> \o SubSeq(good, 3, Len(good)),
                       <<"-">> \o Tail(good),
                       SubSeq(good, 1, Len(good) - 1) \o <<"z">>,
                       good \o <<"z">>}}
        \cup {SignatureHeader(SHA_HEADER, hex(HexLowerDigits, m)) : m \in macs}
        \cup {SignatureHeader(SHA_HEADER, plus_for_zero(hex(HexLowerDigits, m))) : m \in macs}

VerifyRequest(id, timestamp, signature, body) ==
  [headers |-> [message_id |-> id, message_timestamp |-> timestamp,
                message_signature |-> signature],
   body |-> body]

Secrets == ByteStrings

\* The header carrying value, and for the empty value also the missing header.
Headers(value) == {Header(value)} \cup (IF value = <<>> THEN {NoHeader} ELSE {})

(***************************************************************************)
(* The verifier as a state machine: one request, one call.                 *)
(***************************************************************************)

InitVerify ==
  /\ \E id \in ByteStrings, timestamp \in ByteStrings, body \in ByteStrings,
        key \in Secrets :
       \E i \in Headers(id), ts \in Headers(timestamp),
          sig \in SignatureHeaders(id, timestamp, body, key) :
         /\ request = VerifyRequest(i, ts, sig, body)
         /\ secret = key
  /\ pc = "verify"
  /\ op = "none"
  /\ envelope = NoEnvelope
  /\ result = NoResult
  /\ verdict = "none"
  /\ deny_unknown_fields = FALSE
  /\ record = NoRecord

\* Event::verify_payload(&request, secret).
VerifyPayload ==
  /\ pc = "verify"
  /\ verdict' = Event_verify_payload(request, secret)
  /\ op' = "verify_payload"
  /\ pc' = "done"
  /\ UNCHANGED <<request, secret, envelope, result, record, deny_unknown_fields>>

NextVerify == VerifyPayload

SpecVerify == InitVerify /\ [][NextVerify]_vars

\* The request carries the three headers of the verifier, the signature as text.
HasVerifierHeaders ==
  /\ request.headers.message_id.present
  /\ request.headers.message_timestamp.present
  /\ request.headers.message_signature.present
  /\ request.headers.message_signature.text

\* id ++ timestamp ++ body of the request.
SignedMessage ==
  request.headers.message_id.value \o request.headers.message_timestamp.value
    \o request.body

\* C11: verify_payload returns true for every request and secret where the
\* signature header is "sha256=" followed by the lowercase hex of
\* HMAC-SHA256(secret, id ++ timestamp ++ body), id and timestamp being the
\* values of the message id and message timestamp headers.
C11_AuthenticAccepted ==
  (/\ pc = "done" /\ op = "verify_payload"
   /\ HasVerifierHeaders
   /\ request.headers.message_signature.prefix = SHA_HEADER
   /\ request.headers.message_signature.suffix
        = hex(HexLowerDigits, Hmac_Sha256(secret, SignedMessage))) =>
     verdict = "true"

C11_Witness ==
  /\ pc = "done" /\ op = "verify_payload"
  /\ request.headers.message_id.value = <<1>>
  /\ request.headers.message_timestamp.value = <<2>>
  /\ request.body = <<1>>
  /\ secret = <<2>>
  /\ verdict = "true"

\* C12: verify_payload returns false whenever the message id, message
\* timestamp or signature header is missing, the signature header does not
\* start with "sha256=", the hex suffix has odd length, or the decoded
\* signature differs from the MAC of id ++ timestamp ++ body under the
\* secret; so the MAC of a message or secret changed in one byte is rejected.
C12_ForgedRejected ==
  LET sig == request.headers.message_signature
  IN  (/\ pc = "done" /\ op = "verify_payload"
       /\ \/ ~request.headers.message_id.present
          \/ ~request.headers.message_timestamp.present
          \/ ~sig.present
          \/ sig.prefix # SHA_HEADER
          \/ Len(sig.suffix) % 2 = 1
          \/ decode_hex(sig.suffix).tag # "Ok"
          \/ decode_hex(sig.suffix).bytes # Hmac_Sha256(secret, SignedMessage)) =>
        verdict = "false"

\* An accepted signature made for a message that differs in one byte.
C12_Witness ==
  /\ pc = "done" /\ op = "verify_payload"
  /\ HasVerifierHeaders
  /\ request.headers.message_signature.prefix = SHA_HEADER
  /\ \E m \in Tampered(SignedMessage) :
       request.headers.message_signature.suffix
         = hex(HexLowerDigits, Hmac_Sha256(secret, m))
  /\ verdict = "false"

\* C13: verify_payload returns false for every request whose signature
\* header has, after "sha256=", a suffix with at least one character that is
\* no hexadecimal digit (0-9, a-f, A-F).
C13_NonHexRejected ==
  LET sig == request.headers.message_signature
  IN  (/\ pc = "done" /\ op = "verify_payload"
       /\ sig.present /\ sig.text /\ sig.prefix = SHA_HEADER
       /\ \E i \in 1..Len(sig.suffix) : to_digit(sig.suffix[i]) < 0) =>
        verdict = "false"

\* The three entry points of the core, each called on its own inputs.
InitCore == Init \/ InitVerify

NextCore == Next \/ NextVerify

SpecCore == InitCore /\ [][NextCore]_vars

\* C14: every entry point returns a value on every input and none ends in a
\* panic: Event::parse and Event::parse_http return Ok or Err, and
\* verify_payload returns a boolean, the empty secret, the empty body and an
\* empty or malformed signature suffix included.
C14_EntryPointsReturn ==
  pc = "done" =>
    /\ op = "verify_payload" => verdict \in {"true", "false"}
    /\ op \in {"parse", "parse_http"} => result.tag \in {"Ok", "Err"}

\* The empty secret and the empty body, and a suffix of odd length.
C14_Witness ==
  /\ pc = "done" /\ op = "verify_payload"
  /\ secret = <<>> /\ request.body = <<>>
  /\ HasVerifierHeaders
  /\ request.headers.message_signature.prefix = SHA_HEADER
  /\ Len(request.headers.message_signature.suffix) % 2 = 1
  /\ verdict = "false"

(***************************************************************************)
(* Classification and accessors on every Event value.  An Event is a       *)
(* public enum: a caller can hold any variant around any message and any   *)
(* subscription block.                                                     *)
(***************************************************************************)

\* The wire string of the EventType an event declares.
WireOf(variant) ==
  LET k == CHOOSE k \in DOMAIN EventType : EventType[k].tag = EVENT_TYPE(variant)
  IN  EventType[k].wire

\* The messages a Payload of the event can wrap.
MessagesOf(variant) ==
  {[kind |-> "Notification", challenge |-> "", event |-> variant],
   [kind |-> "Revocation", challenge |-> "", event |-> ""]}
    \cup {[kind |-> "VerificationRequest", challenge |-> c, event |-> ""] :
            c \in ChallengeStrings}

\* WireBlock and the blocks that differ from it in one field.
Blocks ==
  {WireBlock,
   Block("y", "enabled", 0, "2020-01-01T00:00:00Z", "{}", "{}"),
   Block("x", "authorization_revoked", 0, "2020-01-01T00:00:00Z", "{}", "{}"),
   Block("x", "enabled", 1, "2020-01-01T00:00:00Z", "{}", "{}"),
   Block("x", "enabled", 0, "2021-01-01T00:00:00Z", "{}", "{}"),
   Block("x", "enabled", 0, "2020-01-01T00:00:00Z", "{\"method\":\"webhook\"}", "{}"),
   Block("x", "enabled", 0, "2020-01-01T00:00:00Z", "{}", "{\"broadcaster_user_id\":\"1\"}"),
   Block("x", "enabled", 0, "2020-01-01T00:00:00Z", "{}", Unresolvable)}

\* The subscription blocks a Payload of the event can hold: the type is a
\* field of its own and need not be the type of the event.
SubscriptionsOf(variant) ==
  {[type |-> ty, version |-> "1", rest |-> TRUE, block |-> b] :
     ty \in {WireOf(variant), "stream.offline"}, b \in Blocks}

EventValues ==
  UNION {{[variant |-> Event[i], subscription |-> sub, message |-> m] :
            sub \in SubscriptionsOf(Event[i]), m \in MessagesOf(Event[i])} :
         i \in DOMAIN Event}

\* The request of a state that holds an Event no entry point has built.
NoRequest == [headers |-> HeadersOf(NotJson), body |-> NotJson]

InitEvent ==
  /\ \E e \in EventValues : result = Ok(e)
  /\ request = NoRequest
  /\ pc = "done"
  /\ op = "none"
  /\ envelope = NoEnvelope
  /\ secret = <<>>
  /\ verdict = "none"
  /\ deny_unknown_fields = FALSE
  /\ record = NoRecord

\* event.is_notification(), event.is_revocation() and
\* event.is_verification_request().
Classify ==
  /\ pc = "done"
  /\ result.tag = "Ok"
  /\ record' = [tag |-> "is_thing",
                is_notification |-> is_notification(result.event),
                is_revocation |-> is_revocation(result.event),
                is_verification_request |-> is_verification_request(result.event)]
  /\ op' = "is_thing"
  /\ pc' = "recorded"
  /\ UNCHANGED <<request, envelope, result, secret, verdict, deny_unknown_fields>>

\* event.get_verification_request().
GetVerificationRequest ==
  /\ pc = "done"
  /\ result.tag = "Ok"
  /\ record' = [tag |-> "Option", value |-> get_verification_request(result.event)]
  /\ op' = "get_verification_request"
  /\ pc' = "recorded"
  /\ UNCHANGED <<request, envelope, result, secret, verdict, deny_unknown_fields>>

NextEvent == Classify \/ GetVerificationRequest \/ Subscription

SpecEvent == InitEvent /\ [][NextEvent]_vars

\* The number of the three classifications that are true.
TrueCount(r) ==
  (IF r.is_notification THEN 1 ELSE 0) + (IF r.is_revocation THEN 1 ELSE 0)
    + (IF r.is_verification_request THEN 1 ELSE 0)

C17_RecordOfDispatch ==
  (pc = "recorded" /\ op \in {"parse", "parse_http", "parse_request"}
     /\ record.tag = "Ok") =>
    /\ record.type_ = envelope.event_type
    /\ record.version = envelope.version

\* The HTTP path with headers for one type around a body of another.
C17_Witness ==
  /\ pc = "recorded" /\ op = "parse_http" /\ record.tag = "Ok"
  /\ request.headers.subscription_type = "channel.follow"
  /\ request.body.type = "stream.offline"
  /\ record.type_ = "ChannelFollow"

\* C18: subscription() returns an error exactly when the condition of the
\* subscription block cannot be resolved; otherwise the record's cost, id,
\* status, created_at and transport are those of the block; the Event stays
\* as it was.
C18_SubscriptionRecord ==
  /\ [](LET block == result.event.subscription.block
        IN  (pc = "recorded" /\ record.tag \in {"Ok", "Err"}) =>
              /\ (record.tag = "Err") = (block.condition = Unresolvable)
              /\ record.tag = "Ok" =>
                   /\ record.cost = block.cost
                   /\ record.id = block.id
                   /\ record.status = block.status
                   /\ record.created_at = block.created_at
                   /\ record.transport = block.transport)
  /\ [][Subscription => result' = result]_vars

\* A condition that does not resolve.
C18_Witness ==
  /\ pc = "recorded" /\ record.tag = "Err"
  /\ result.event.subscription.block.condition = Unresolvable

\* A record of a block that is not the one of a delivered message.
C18_WitnessOk ==
  /\ pc = "recorded" /\ record.tag = "Ok"
  /\ result.event.subscription.block.cost = 1
  /\ record.cost = 1

(***************************************************************************)
(* The routing table on every (version, event type) pair.                  *)
(***************************************************************************)

InitCatalog ==
  /\ \E v \in VersionStrings, e \in EventTypeTags, m \in MessageTypes :
       envelope = Triple(v, e, m)
  /\ request = NoRequest
  /\ pc = "routing"
  /\ op = "none"
  /\ result = NoResult
  /\ secret = <<>>
  /\ verdict = "none"
  /\ deny_unknown_fields = FALSE
  /\ record = NoRecord

\* The match of parse_request on (version, event_type): the arm it takes and
\* every event of the routing table whose pattern is that pair.
Route ==
  /\ pc = "routing"
  /\ record' = [tag |-> "route",
                arm |-> match_event(envelope.version, envelope.event_type),
                arms |-> {parse_request_events[i] : i \in
                            {j \in DOMAIN parse_request_events :
                               /\ VERSION(parse_request_events[j]) = envelope.version
                               /\ EVENT_TYPE(parse_request_events[j])
                                    = envelope.event_type}}]
  /\ op' = "match_event"
  /\ pc' = "recorded"
  /\ UNCHANGED <<request, envelope, result, secret, verdict, deny_unknown_fields>>

NextCatalog == Route

SpecCatalog == InitCatalog /\ [][NextCatalog]_vars

\* C19: the routing table of parse_request has no gaps and no duplicates:
\* every EventType tag has at least one (tag, version) entry, and no (tag,
\* version) pair is routed to more than one Event variant.
C19_CatalogComplete ==
  /\ \A tag \in EventTypeTags :
       \E i \in DOMAIN parse_request_events :
         EVENT_TYPE(parse_request_events[i]) = tag
  /\ (pc = "recorded" /\ record.tag = "route") =>
       /\ Cardinality(record.arms) <= 1
       /\ record.arms = {} <=> record.arm = NoArm
       /\ record.arm # NoArm => record.arms = {record.arm}

C19_Witness ==
  /\ pc = "recorded" /\ record.tag = "route"
  /\ envelope.event_type = "UserAuthorizationRevoke" /\ envelope.version = "1"
  /\ record.arm = "UserAuthorizationRevokeV1"

\* The events of a list.
Listed(list) == {list[i] : i \in DOMAIN list}

\* C20: the variants of the Event enum, the list of is_thing!, the arms of
\* get_verification_request, the list of subscription() and the routing
\* table of parse_request are the same set, so no Event the dispatcher can
\* build falls to a default arm of a classification or an accessor.
C20_OneCatalog ==
  /\ Listed(is_thing_events) = Listed(Event)
  /\ Listed(get_verification_request_arms) = Listed(Event)
  /\ Listed(subscription_events) = Listed(Event)
  /\ Listed(parse_request_events) = Listed(Event)
  /\ pc = "recorded" =>
       /\ result.event.variant \in Listed(parse_request_events)
       /\ record.tag = "is_thing" => TrueCount(record) >= 1
       /\ (record.tag = "Option"
             /\ result.event.message.kind = "VerificationRequest") => record.value.some
       /\ record.tag # NoArm

C20_Witness ==
  /\ pc = "recorded" /\ record.tag = "Ok"
  /\ result.event.variant = "UserAuthorizationRevokeV1"

(***************************************************************************)
(* The two paths compared.                                                 *)
(***************************************************************************)

\* The message kind Payload::parse_request builds for a message type.
KindOf(message_type) ==
  CASE message_type = "notification" -> "Notification"
    [] message_type = "webhook_callback_verification" -> "VerificationRequest"
    [] message_type = "revocation" -> "Revocation"
    [] OTHER -> ""

\* C21: on the HTTP path the routing triple is taken from the three routing
\* headers alone: the same headers around another body give the same triple,
\* and the variant and the message kind of an Ok result are those of the
\* headers, whatever subscription.type, subscription.version and event or
\* challenge the body holds.
C21_HeadersRoute ==
  (pc = "done" /\ op = "parse_http") =>
    /\ \A b \in BodiesWith(request.headers) :
         get_version_event_type_and_message_type_from_http(
           [headers |-> request.headers, body |-> b]) = envelope
    /\ result.tag = "Ok" =>
         /\ result.event.variant
              = match_event(request.headers.subscription_version,
                            EventType_deserialize(request.headers.subscription_type).tag)
         /\ result.event.message.kind = KindOf(request.headers.message_type)

\* Headers of one type around a revocation body of another type.
C21_Witness ==
  /\ pc = "done" /\ op = "parse_http" /\ result.tag = "Ok"
  /\ request.headers.subscription_type = "channel.follow"
  /\ request.headers.message_type = "revocation"
  /\ request.body.type = "stream.offline"
  /\ result.event.variant = "ChannelFollowV1"

\* C27: the dispatcher decides UnimplementedEvent before it looks at the
\* body: for a (tag, version) pair with no catalog entry the result is
\* UnimplementedEvent of that pair, whether the body is well-formed,
\* malformed or no JSON, and never DeserializeError.
C27_UnimplementedBeforeBody ==
  (/\ pc = "done" /\ op \in {"parse_request", "parse_http"}
   /\ envelope.tag = "Ok"
   /\ match_event(envelope.version, envelope.event_type) = NoArm) =>
    result = Err(UnimplementedEvent(envelope.version, envelope.event_type))

\* A pair without entry around a body that is no JSON.
C27_Witness ==
  /\ pc = "done" /\ op = "parse_request"
  /\ request.headers.subscription_version = "2"
  /\ ~request.body.json
  /\ result.error.kind = "UnimplementedEvent"

\* C28: on the HTTP path a missing routing header takes precedence over an
\* unknown type string: with a type header outside the catalog and the
\* version or the message type header absent the result is MalformedEvent,
\* and UnknownEventType, carrying the type string of the header, is returned
\* only when all three headers are present.
C28_MissingHeaderFirst ==
  (pc = "done" /\ op = "parse_http") =>
    /\ (/\ request.headers.subscription_type \in UnknownTypeStrings
        /\ \/ request.headers.subscription_version = Absent
           \/ request.headers.message_type = Absent) =>
         result = Err(MalformedEvent)
    /\ (result.tag = "Err" /\ result.error.kind = "UnknownEventType") =>
         /\ request.headers.subscription_type # Absent
         /\ request.headers.subscription_version # Absent
         /\ request.headers.message_type # Absent
         /\ result.error = UnknownEventType(request.headers.subscription_type)

C28_Witness ==
  /\ pc = "done" /\ op = "parse_http"
  /\ request.headers.subscription_type = "channel.unknown"
  /\ request.headers.subscription_version = Absent
  /\ request.headers.message_type = "notification"
  /\ result = Err(MalformedEvent)

\* C29: the two entry points agree: for every body and the request that
\* carries it with the type and version headers of its subscription block and
\* the message type header of its shape, Event::parse and Event::parse_http
\* return the same result.
C29_EntryPointsAgree ==
  (pc = "done" /\ op = "parse" /\ request.headers = HeadersOf(request.body)) =>
    result = Event_parse_http(request)

(***************************************************************************)
(* Bodies with fields no schema declares, with and without the feature     *)
(* deny_unknown_fields.                                                    *)
(***************************************************************************)

\* Well-formed bodies of three shapes for two events, each with and without
\* an unknown field at the top level and in the subscription block.
InitUnknown ==
  /\ \E ty \in {"stream.online", "channel.follow"}, top \in BOOLEAN, sub \in BOOLEAN :
       \E w \in BodiesOfType(ty, {"1", "2"}, {<<"absent", "none">>}
                                \cup {<<"object", s>> : s \in EventsOfWire(ty)},
                              {<<"absent", "">>, <<"string", "c1">>}) :
         LET b == [w EXCEPT !.extra_top = top, !.extra_sub = sub]
         IN  request = [headers |-> HeadersOf(b), body |-> b]
  /\ deny_unknown_fields \in BOOLEAN
  /\ pc = "start"
  /\ op = "none"
  /\ envelope = NoEnvelope
  /\ result = NoResult
  /\ secret = <<>>
  /\ verdict = "none"
  /\ record = NoRecord

SpecUnknown == InitUnknown /\ [][Next]_vars

\* The body without its unknown fields.
Known(b) == [b EXCEPT !.extra_top = FALSE, !.extra_sub = FALSE]

\* C23: in the default configuration a body with fields unknown to the
\* schema, at the top level or in the subscription block, is parsed as if
\* those fields were absent; unknown fields make a parse fail only when the
\* feature deny_unknown_fields is enabled.
C23_UnknownFieldsIgnored ==
  (pc = "done" /\ ~deny_unknown_fields) =>
    /\ op = "parse" => result = Event_parse(Known(request.body))
    /\ op = "parse_http" =>
         result = Event_parse_http([request EXCEPT !.body = Known(request.body)])

\* A notification with unknown fields in both places, parsed by Event::parse.
C23_Witness ==
  /\ pc = "done" /\ op = "parse" /\ ~deny_unknown_fields
  /\ request.body.extra_top /\ request.body.extra_sub
  /\ result.tag = "Ok" /\ result.event.message.kind = "Notification"

\* With the feature the same body is rejected.
C23_WitnessStrict ==
  /\ pc = "done" /\ op = "parse_http" /\ deny_unknown_fields
  /\ request.body.extra_top /\ Event_parse_http([request EXCEPT !.body = Known(request.body)]).tag = "Ok"
  /\ result.tag = "Err"

(***************************************************************************)
(* The verifier on requests that spell the same message differently.       *)
(***************************************************************************)

\* The request with the given id, timestamp and body, the signature header
\* of the current request, and routing headers beside them.
Respelled(id, timestamp, body) ==
  [headers |-> [message_id |-> Header(id),
                message_timestamp |-> Header(timestamp),
                message_signature |-> request.headers.message_signature,
                subscription_type |-> "stream.online",
                subscription_version |-> "1",
                message_type |-> "notification"],
   body |-> body]

\* C30: verify_payload depends on the message id header, the message
\* timestamp header and the body only through their concatenation, and on no
\* other header: a request with the same secret and signature header and the
\* same id ++ timestamp ++ body gets the same verdict, also when the bytes
\* are split differently between the three or routing headers are added.
C30_ConcatenationOnly ==
  (/\ pc = "done" /\ op = "verify_payload"
   /\ request.headers.message_id.present
   /\ request.headers.message_timestamp.present) =>
    \A id \in ByteStrings, timestamp \in ByteStrings, body \in ByteStrings :
      id \o timestamp \o body = SignedMessage =>
        Event_verify_payload(Respelled(id, timestamp, body), secret) = verdict

\* An accepted request whose one message byte is the id; the timestamp or
\* the body could hold it as well.
C30_Witness ==
  /\ pc = "done" /\ op = "verify_payload" /\ verdict = "true"
  /\ request.headers.message_id.value = <<2>>
  /\ request.headers.message_timestamp.present
  /\ request.headers.message_timestamp.value = <<>>
  /\ request.body = <<>>
  /\ secret = <<1>>

(***************************************************************************)
(* Concurrent callers.  Each call runs in steps: an entry point first      *)
(* binds a local (the routing triple, or the message and signature) and    *)
(* then works from that local.  The locals live in the frame of the call;  *)
(* the module has no static but the immutable SHA_HEADER.                  *)
(***************************************************************************)

\* Number of callers running at once.
NumCallers == 2

Callers == 1..NumCallers

\* The frame that holds the locals of caller c.
shared_frame(c) == 1

frame(c) == c

\* The calls a host makes: an entry point with its arguments.  The bodies
\* are a notification, a revocation, a verification request and a message of
\* an unknown type.
ConcurrentCalls ==
  {[op |-> o, request |-> [headers |-> HeadersOf(b), body |-> b], secret |-> <<>>] :
     o \in {"parse", "parse_http"},
     b \in {Body(TRUE, TRUE, "stream.online", "1", TRUE, "object", "StreamOnlineV1", "absent", ""),
            Body(TRUE, TRUE, "channel.follow", "1", TRUE, "absent", "none", "absent", ""),
            Body(TRUE, TRUE, "channel.follow", "1", TRUE, "absent", "none", "string", "c1"),
            Body(TRUE, TRUE, "channel.unknown", "1", TRUE, "absent", "none", "absent", "")}}
    \cup {[op |-> "verify_payload",
           request |-> VerifyRequest(Header(id), Header(<<>>),
                         SignatureHeader(SHA_HEADER,
                                         hex(HexLowerDigits, Hmac_Sha256(<<2>>, <<1>>))),
                         <<>>),
           secret |-> k] : id \in {<<1>>, <<2>>}, k \in {<<1>>, <<2>>}}

InitConcurrent ==
  /\ \E call \in [Callers -> ConcurrentCalls] :
       /\ request = [c \in Callers |-> call[c].request]
       /\ op = [c \in Callers |-> call[c].op]
       /\ secret = [c \in Callers |-> call[c].secret]
  /\ pc = [c \in Callers |-> "start"]
  /\ envelope = [c \in Callers |->
                  [envelope |-> NoEnvelope, ms |-> MessageAndSignature("", <<>>, <<>>)]]
  /\ result = [c \in Callers |-> NoResult]
  /\ verdict = [c \in Callers |-> "none"]
  /\ record = [c \in Callers |-> NoRecord]
  /\ deny_unknown_fields = FALSE

\* let (version, ty, message_type) = get_version_event_type_and_message_type_from_*(..)
ReadEnvelope(c) ==
  /\ pc[c] = "start"
  /\ op[c] \in {"parse", "parse_http"}
  /\ envelope' = [envelope EXCEPT ![frame(c)].envelope =
                    IF op[c] = "parse"
                    THEN get_version_event_type_and_message_type_from_text(request[c].body)
                    ELSE get_version_event_type_and_message_type_from_http(request[c])]
  /\ pc' = [pc EXCEPT ![c] = "dispatch"]
  /\ UNCHANGED <<request, op, result, secret, verdict, record, deny_unknown_fields>>

\* The ? on the triple, then Self::parse_request(version, &ty, message_type, source).
Dispatch(c) ==
  /\ pc[c] = "dispatch"
  /\ LET e == envelope[frame(c)].envelope
     IN  result' = [result EXCEPT ![c] =
                      IF e.tag = "Ok"
                      THEN Event_parse_request(e.version, e.event_type, e.message_type,
                                               request[c].body)
                      ELSE Err(e.error)]
  /\ pc' = [pc EXCEPT ![c] = "done"]
  /\ UNCHANGED <<request, op, envelope, secret, verdict, record, deny_unknown_fields>>

\* event.subscription() on the Event the call returned.
Subscribe(c) ==
  /\ pc[c] = "done"
  /\ result[c].tag = "Ok"
  /\ record' = [record EXCEPT ![c] = Event_subscription(result[c].event)]
  /\ pc' = [pc EXCEPT ![c] = "recorded"]
  /\ UNCHANGED <<request, op, envelope, result, secret, verdict, deny_unknown_fields>>

\* if let Some((message, signature)) = message_and_signature(request)
ReadMessage(c) ==
  /\ pc[c] = "start"
  /\ op[c] = "verify_payload"
  /\ envelope' = [envelope EXCEPT ![frame(c)].ms = message_and_signature(request[c])]
  /\ pc' = [pc EXCEPT ![c] = "mac"]
  /\ UNCHANGED <<request, op, result, secret, verdict, record, deny_unknown_fields>>

\* The MAC of the message under the secret, compared with the signature.
VerifyMac(c) ==
  /\ pc[c] = "mac"
  /\ LET ms == envelope[frame(c)].ms
     IN  verdict' = [verdict EXCEPT ![c] =
                       IF ms.tag = "Some" /\ new_from_slice(secret[c]) = "Ok"
                            /\ ms.signature = Hmac_Sha256(secret[c], ms.message)
                       THEN "true" ELSE "false"]
  /\ pc' = [pc EXCEPT ![c] = "done"]
  /\ UNCHANGED <<request, op, envelope, result, secret, record, deny_unknown_fields>>

NextConcurrent ==
  \E c \in Callers :
    ReadEnvelope(c) \/ Dispatch(c) \/ Subscribe(c) \/ ReadMessage(c) \/ VerifyMac(c)

SpecConcurrent == InitConcurrent /\ [][NextConcurrent]_vars

\* C22: parsing and verification share no mutable state: whatever the
\* interleaving of the callers, the result of each parse, parse_http,
\* subscription and verify_payload call is the result of that call run alone
\* on the same input.
C22_CallsIndependent ==
  \A c \in Callers :
    /\ (pc[c] \in {"done", "recorded"} /\ op[c] = "parse") =>
         result[c] = Event_parse(request[c].body)
    /\ (pc[c] \in {"done", "recorded"} /\ op[c] = "parse_http") =>
         result[c] = Event_parse_http(request[c])
    /\ (pc[c] = "done" /\ op[c] = "verify_payload") =>
         verdict[c] = Event_verify_payload(request[c], secret[c])
    /\ pc[c] = "recorded" => record[c] = Event_subscription(result[c].event)

\* Two callers with different inputs, the second one done while the first
\* one was between its two steps.
C22_Witness ==
  /\ pc[1] = "dispatch" /\ pc[2] = "recorded"
  /\ op[1] = "parse_http" /\ op[2] = "parse"
  /\ request[1].body.type = "channel.unknown"
  /\ request[2].body.type = "stream.online"
  /\ record[2].tag = "Ok"

(***************************************************************************)
(* Helix: building a request.  Tokens, client ids and header values are    *)
(* byte strings; a request value is its endpoint path and what its query   *)
(* serializes to.                                                          *)
(***************************************************************************)

\* http::HeaderValue::from_str: the bytes of a header value are 32..255
\* without 127, or a tab.
HeaderValue_from_str(bytes) ==
  IF \A i \in DOMAIN bytes : (bytes[i] >= 32 /\ bytes[i] # 127) \/ bytes[i] = 9
  THEN [ok |-> TRUE, value |-> bytes]
  ELSE [ok |-> FALSE, value |-> <<>>]

\* The bytes of "Bearer ".
Bearer == <<66, 101, 97, 114, 101, 114, 32>>

\* format!("Bearer {}", token)
format_bearer(token) == Bearer \o token

\* Request::get_uri: the query is serialized, set on the helix URL joined
\* with PATH, and the text is parsed as an http::Uri, which has a longest
\* length.
get_uri(self) ==
  CASE self.query = "ser_error" -> [ok |-> FALSE, error |-> "QuerySerializeError", uri |-> <<>>]
    [] self.query = "too_long"  -> [ok |-> FALSE, error |-> "UriParseError", uri |-> <<>>]
    [] OTHER -> [ok |-> TRUE, error |-> "",
                 uri |-> <<self.PATH, self.query>>]

\* HelixRequestBody::try_to_body: EmptyBody gives no bytes, a serializable
\* body its JSON or a JsonError.
try_to_body(body) ==
  CASE body = "unserializable" -> [ok |-> FALSE, bytes |-> ""]
    [] body = "EmptyBody"      -> [ok |-> TRUE, bytes |-> ""]
    [] OTHER                   -> [ok |-> TRUE, bytes |-> body]

CreateRequestError(kind) == [tag |-> "Err", error |-> kind]

\* http::Request::builder().method(..).uri(..).header("Client-ID", client_id)
\*   .header("Content-Type", "application/json").header(AUTHORIZATION, bearer).body(..)
\* The builder keeps the first error of its calls and body() returns it.
Request_builder(method, uri, client_id, bearer, body) ==
  IF HeaderValue_from_str(client_id).ok
  THEN [tag |-> "Ok",
        request |-> [method |-> method, uri |-> uri,
                     headers |-> [client_id |-> client_id,
                                  content_type |-> "application/json",
                                  authorization |-> bearer],
                     body |-> body]]
  ELSE CreateRequestError("HttpError")

\* create_request of the traits that send a body.
create_request_with_body(method, self, body, token, client_id) ==
  LET uri == get_uri(self)
      bytes == try_to_body(body)
      bearer == HeaderValue_from_str(format_bearer(token))
  IN  IF ~uri.ok THEN CreateRequestError("InvalidUri")
      ELSE IF ~bytes.ok THEN CreateRequestError("SerializeError")
      ELSE IF ~bearer.ok THEN CreateRequestError("Custom")
      ELSE Request_builder(method, uri.uri, client_id, bearer.value, bytes.bytes)

\* create_request of the traits that send no body.
create_request_without_body(method, self, token, client_id) ==
  LET uri == get_uri(self)
      bearer == HeaderValue_from_str(format_bearer(token))
  IN  IF ~uri.ok THEN CreateRequestError("InvalidUri")
      ELSE IF ~bearer.ok THEN CreateRequestError("Custom")
      ELSE Request_builder(method, uri.uri, client_id, bearer.value, "")

\* create_request sending the token as it is, without "Bearer ".
create_request_bare_token(self, token, client_id) ==
  LET uri == get_uri(self)
      bearer == HeaderValue_from_str(token)
  IN  IF ~uri.ok THEN CreateRequestError("InvalidUri")
      ELSE IF ~bearer.ok THEN CreateRequestError("Custom")
      ELSE Request_builder("GET", uri.uri, client_id, bearer.value, "")

RequestGet_create_request(self, token, client_id) ==
  create_request_without_body("GET", self, token, client_id)

RequestDelete_create_request(self, token, client_id) ==
  create_request_without_body("DELETE", self, token, client_id)

RequestPost_create_request(self, body, token, client_id) ==
  create_request_with_body("POST", self, body, token, client_id)

RequestPatch_create_request(self, body, token, client_id) ==
  create_request_with_body("PATCH", self, body, token, client_id)

RequestPut_create_request(self, body, token, client_id) ==
  create_request_with_body("PUT", self, body, token, client_id)

Traits == {"GET", "POST", "PATCH", "PUT", "DELETE"}

\* Request values are an endpoint and the outcome of serializing its query;
\* tokens and client ids are empty, plain, with a line feed, with a byte
\* above ASCII, with DEL, with a tab; GET and DELETE send no body.
InitCreate ==
  /\ \E trait \in Traits,
        self \in [PATH : {"hypetrain/events", "subscriptions"},
                  query : {"broadcaster_id=1", "ser_error", "too_long"}],
        token \in {<<>>, <<97>>, <<97, 10>>, <<200>>, <<127>>, <<9, 97>>},
        client_id \in {<<>>, <<99>>, <<10>>} :
       \E body \in IF trait \in {"GET", "DELETE"}
                   THEN {"EmptyBody"}
                   ELSE {"EmptyBody", "{}", "unserializable"} :
         request = [trait |-> trait, self |-> self, body |-> body, token |-> token,
                    client_id |-> client_id]
  /\ pc = "create"
  /\ op = "none"
  /\ envelope = NoEnvelope
  /\ result = NoResult
  /\ secret = <<>>
  /\ verdict = "none"
  /\ deny_unknown_fields = FALSE
  /\ record = NoRecord

\* self.create_request(body, token, client_id) of the trait of the request.
CreateRequest ==
  /\ pc = "create"
  /\ result' =
       CASE request.trait = "GET" ->
              RequestGet_create_request(request.self, request.token, request.client_id)
         [] request.trait = "DELETE" ->
              RequestDelete_create_request(request.self, request.token, request.client_id)
         [] request.trait = "POST" ->
              RequestPost_create_request(request.self, request.body, request.token,
                                         request.client_id)
         [] request.trait = "PATCH" ->
              RequestPatch_create_request(request.self, request.body, request.token,
                                          request.client_id)
         [] request.trait = "PUT" ->
              RequestPut_create_request(request.self, request.body, request.token,
                                        request.client_id)
  /\ op' = "create_request"
  /\ pc' = "done"
  /\ UNCHANGED <<request, envelope, secret, verdict, record, deny_unknown_fields>>

NextCreate == CreateRequest

SpecCreate == InitCreate /\ [][NextCreate]_vars

\* C24: for each of the GET, POST, PATCH, PUT and DELETE traits
\* create_request returns a request whose method is the one of the trait,
\* whose Client-ID header is the given client id and whose Authorization
\* header is "Bearer " followed by the given token; it returns an error and
\* no request when the token cannot be made into a header value or the URI
\* cannot be built.
C24_CreateRequest ==
  (pc = "done" /\ op = "create_request") =>
    /\ result.tag \in {"Ok", "Err"}
    /\ result.tag = "Ok" =>
         /\ result.request.method = request.trait
         /\ result.request.headers.client_id = request.client_id
         /\ result.request.headers.authorization = Bearer \o request.token
    /\ (~HeaderValue_from_str(request.token).ok \/ ~get_uri(request.self).ok) =>
         result.tag = "Err"

\* A PUT request with a token of a byte above ASCII.
C24_Witness ==
  /\ pc = "done" /\ op = "create_request"
  /\ request.trait = "PUT" /\ request.token = <<200>>
  /\ result.tag = "Ok" /\ result.request.method = "PUT"
  /\ result.request.headers.authorization = <<66, 101, 97, 114, 101, 114, 32, 200>>

\* A token with a line feed.
C24_WitnessErr ==
  /\ pc = "done" /\ op = "create_request"
  /\ request.token = <<97, 10>> /\ request.self.query = "broadcaster_id=1"
  /\ result = CreateRequestError("Custom")

(***************************************************************************)
(* Helix: parsing a response.  A response body is either not UTF-8, not     *)
(* JSON, or a JSON object of which the model keeps the fields of the two    *)
(* envelopes: error, status, message and data, pagination.cursor, total.    *)
(***************************************************************************)

Number(n) == [present |-> TRUE, n |-> n]

NoNumber == [present |-> FALSE, n |-> 0]

ResponseBody(utf8, json, error, status, message, data, cursor, total) ==
  [utf8 |-> utf8, json |-> json, error |-> error, status |-> status,
   message |-> message, data |-> data, cursor |-> cursor, total |-> total]

\* parse_json::<HelixRequestError>(text, false): error and message are
\* strings, status is a u16; other fields are ignored.
HelixRequestError(text) ==
  IF /\ text.json
     /\ text.error # Absent /\ text.message # Absent
     /\ text.status.present /\ text.status.n >= 0 /\ text.status.n <= 65535
  THEN [ok |-> TRUE, error |-> text.error, status |-> text.status.n,
        message |-> text.message]
  ELSE [ok |-> FALSE, error |-> "", status |-> 0, message |-> ""]

\* status.try_into().unwrap_or(http::StatusCode::BAD_REQUEST): a StatusCode
\* is a number from 100 to 999.
StatusCode_or_bad_request(status) ==
  IF status >= 100 /\ status < 1000 THEN status ELSE 400

HelixRequestErr(kind, error, status, message, uri) ==
  [tag |-> "Err", kind |-> kind, error |-> error, status |-> status,
   message |-> message, uri |-> uri]

Utf8Error(uri) == HelixRequestErr("Utf8Error", "", 0, "", uri)

\* parse_json::<InnerResponse<D>>(response, true) and the Response built from
\* it: data is required, pagination and total default to none.
InnerResponse(req, uri, response, status) ==
  IF response.json /\ response.data # Absent
  THEN [tag |-> "Ok", data |-> response.data, pagination |-> response.cursor,
        request |-> req, total |-> response.total]
  ELSE HelixRequestErr("DeserializeError", "", status, "", uri)

\* parse_inner_response of RequestGet and RequestPost, which have a body in
\* the trait.
RequestGet_parse_inner_response(req, uri, response, status) ==
  InnerResponse(req, uri, response, status)

RequestPost_parse_inner_response(req, uri, response, status) ==
  InnerResponse(req, uri, response, status)

\* parse_inner_response of RequestPatch, RequestDelete and RequestPut has no
\* body in the trait: each endpoint decides on the text and the status.
Endpoint_parse_inner_response(req, uri, response, status) ==
  [tag |-> "Endpoint", request |-> req, uri |-> uri, text |-> response,
   status |-> status]

\* parse_response looking at a successful HTTP status first: the data
\* envelope is parsed without a look for the error envelope.
parse_response_status_first(req, uri, response) ==
  LET e == HelixRequestError(response.body)
  IN  IF ~response.body.utf8 THEN Utf8Error(uri)
      ELSE IF response.status # 200 /\ e.ok
           THEN HelixRequestErr("Error", e.error, StatusCode_or_bad_request(e.status),
                                e.message, uri)
      ELSE InnerResponse(req, uri, response.body, response.status)

\* parse_response keeping the status number of the envelope as it is.
parse_response_status_kept(req, uri, response) ==
  LET e == HelixRequestError(response.body)
  IN  IF ~response.body.utf8 THEN Utf8Error(uri)
      ELSE IF e.ok THEN HelixRequestErr("Error", e.error, e.status, e.message, uri)
      ELSE InnerResponse(req, uri, response.body, response.status)

RequestGet_parse_response(req, uri, response) ==
  LET e == HelixRequestError(response.body)
  IN  IF ~response.body.utf8 THEN Utf8Error(uri)
      ELSE IF e.ok
           THEN HelixRequestErr("Error", e.error, StatusCode_or_bad_request(e.status),
                                e.message, uri)
      ELSE RequestGet_parse_inner_response(req, uri, response.body, response.status)

RequestPost_parse_response(req, uri, response) ==
  LET e == HelixRequestError(response.body)
  IN  IF ~response.body.utf8 THEN Utf8Error(uri)
      ELSE IF e.ok
           THEN HelixRequestErr("Error", e.error, StatusCode_or_bad_request(e.status),
                                e.message, uri)
      ELSE RequestPost_parse_inner_response(req, uri, response.body, response.status)

RequestPatch_parse_response(req, uri, response) ==
  LET e == HelixRequestError(response.body)
  IN  IF ~response.body.utf8 THEN Utf8Error(uri)
      ELSE IF e.ok
           THEN HelixRequestErr("Error", e.error, StatusCode_or_bad_request(e.status),
                                e.message, uri)
      ELSE Endpoint_parse_inner_response(req, uri, response.body, response.status)

RequestDelete_parse_response(req, uri, response) ==
  LET e == HelixRequestError(response.body)
  IN  IF ~response.body.utf8 THEN Utf8Error(uri)
      ELSE IF e.ok
           THEN HelixRequestErr("Error", e.error, StatusCode_or_bad_request(e.status),
                                e.message, uri)
      ELSE Endpoint_parse_inner_response(req, uri, response.body, response.status)

RequestPut_parse_response(req, uri, response) ==
  LET e == HelixRequestError(response.body)
  IN  IF ~response.body.utf8 THEN Utf8Error(uri)
      ELSE IF e.ok
           THEN HelixRequestErr("Error", e.error, StatusCode_or_bad_request(e.status),
                                e.message, uri)
      ELSE Endpoint_parse_inner_response(req, uri, response.body, response.status)

\* The bodies are bytes that are not UTF-8, text that is not JSON, and
\* objects with and without each field of the error envelope and the data;
\* the status numbers of an envelope are around the ends of the StatusCode
\* range and around the end of u16.
InitResponse ==
  /\ \E trait \in Traits, self \in {"none", "some"}, status \in {200, 401, 500},
        body \in
          {ResponseBody(FALSE, FALSE, Absent, NoNumber, Absent, Absent, Absent, Absent),
           ResponseBody(TRUE, FALSE, Absent, NoNumber, Absent, Absent, Absent, Absent)}
            \cup {ResponseBody(TRUE, TRUE, error, number, message, data, Absent, Absent) :
                    error \in {Absent, "Unauthorized"},
                    number \in {NoNumber}
                      \cup {Number(n) : n \in {0, 99, 100, 401, 999, 1000, 65535, 65536}},
                    message \in {Absent, "Invalid OAuth token"},
                    data \in {Absent, "page"}} :
       request = [trait |-> trait, request |-> self, uri |-> "uri",
                  response |-> [status |-> status, body |-> body]]
  /\ pc = "response"
  /\ op = "none"
  /\ envelope = NoEnvelope
  /\ result = NoResult
  /\ secret = <<>>
  /\ verdict = "none"
  /\ deny_unknown_fields = FALSE
  /\ record = NoRecord

\* <R>::parse_response(request, &uri, response) of the trait of the request.
ParseResponse ==
  /\ pc = "response"
  /\ result' =
       CASE request.trait = "GET" ->
              RequestGet_parse_response(request.request, request.uri, request.response)
         [] request.trait = "POST" ->
              RequestPost_parse_response(request.request, request.uri, request.response)
         [] request.trait = "PATCH" ->
              RequestPatch_parse_response(request.request, request.uri, request.response)
         [] request.trait = "DELETE" ->
              RequestDelete_parse_response(request.request, request.uri, request.response)
         [] request.trait = "PUT" ->
              RequestPut_parse_response(request.request, request.uri, request.response)
  /\ op' = "parse_response"
  /\ pc' = "done"
  /\ UNCHANGED <<request, envelope, secret, verdict, record, deny_unknown_fields>>

NextResponse == ParseResponse

SpecResponse == InitResponse /\ [][NextResponse]_vars

\* C26: parse_response of every request trait looks for the error envelope
\* before the data envelope: a UTF-8 body that parses as {error, status,
\* message} gives the Error variant with those fields and the request URI,
\* whatever the HTTP status of the response, the status being 400 when the
\* number of the envelope is no HTTP status code; a body that is not UTF-8
\* gives Utf8Error; only otherwise is the data envelope parsed.
C26_ErrorEnvelopeFirst ==
  (pc = "done" /\ op = "parse_response") =>
    LET body == request.response.body
        e == HelixRequestError(body)
    IN  /\ ~body.utf8 => (result.tag = "Err" /\ result.kind = "Utf8Error")
        /\ (body.utf8 /\ e.ok) =>
             /\ result.tag = "Err" /\ result.kind = "Error"
             /\ result.error = body.error /\ result.message = body.message
             /\ result.uri = request.uri
             /\ result.status = IF body.status.n \in 100..999 THEN body.status.n ELSE 400
        /\ (result.tag \in {"Ok", "Endpoint"}
              \/ (result.tag = "Err" /\ result.kind = "DeserializeError")) =>
             (body.utf8 /\ ~e.ok)

\* An error envelope beside data in a response of status 200.
C26_Witness ==
  /\ pc = "done" /\ op = "parse_response"
  /\ request.trait = "GET" /\ request.response.status = 200
  /\ request.response.body.data = "page"
  /\ request.response.body.status = Number(1000)
  /\ result.tag = "Err" /\ result.kind = "Error" /\ result.status = 400

(***************************************************************************)
(* Helix: walking the pages of a paginated GET endpoint with                *)
(* Response::get_next.  The server is a function from the query it is sent  *)
(* to its reply; the walk keeps the current response and the requests that  *)
(* went over the transport.                                                 *)
(***************************************************************************)

\* Bound on the requests of a walk.
MaxPages == 3

Some(value) == [some |-> TRUE, value |-> value]

None == [some |-> FALSE, value |-> Absent]

\* GetHypeTrainEventsRequest with its cursor; first and id stay unset.
GetHypeTrainEventsRequest(cursor) ==
  [PATH |-> "hypetrain/events", broadcaster_id |-> "1", cursor |-> cursor]

\* The request as get_uri reads it: its path and its serialized query.
Serialized(self) ==
  [PATH |-> self.PATH,
   query |-> CASE self.cursor = "a" -> "broadcaster_id=1&cursor=a"
               [] self.cursor = "b" -> "broadcaster_id=1&cursor=b"
               [] OTHER -> "broadcaster_id=1"]

\* A set_pagination that leaves the request as it is.
set_pagination_unset(self, cursor) == self

set_pagination(self, cursor) == [self EXCEPT !.cursor = cursor]

ClientRequestError(kind, source) == [tag |-> "Err", kind |-> kind, source |-> source]

RequestError == [tag |-> "RequestError"]

\* A response of the transport with a page in its body.
Page(data, cursor) ==
  [tag |-> "Response", status |-> 200,
   body |-> ResponseBody(TRUE, TRUE, Absent, NoNumber, Absent, data, cursor, Absent)]

\* HelixClient::req_get: the result, and the requests given to the transport.
req_get(server, req, token) ==
  LET created == RequestGet_create_request(Serialized(req), token, <<99>>)
  IN  IF created.tag = "Err"
      THEN [sent |-> <<>>, result |-> ClientRequestError("CreateRequestError", created)]
      ELSE LET uri == created.request.uri
               response == server[uri[2]]
               parsed == RequestGet_parse_response(Some(req), uri, response)
           IN  IF response.tag = "RequestError"
               THEN [sent |-> <<created.request>>,
                     result |-> ClientRequestError("RequestError", response)]
               ELSE IF parsed.tag = "Err"
               THEN [sent |-> <<created.request>>,
                     result |-> ClientRequestError("HelixRequestGetError", parsed)]
               ELSE [sent |-> <<created.request>>, result |-> parsed]

\* get_next without the comparison of the data of the two pages.
get_next_every_page(self, server, token) ==
  IF self.request.some
  THEN IF self.pagination # Absent
       THEN LET res == req_get(server, set_pagination(self.request.value, self.pagination), token)
            IN  IF res.result.tag = "Ok"
                THEN [sent |-> res.sent, result |-> [tag |-> "Ok", value |-> Some(res.result)]]
                ELSE res
       ELSE [sent |-> <<>>, result |-> [tag |-> "Ok", value |-> None]]
  ELSE [sent |-> <<>>,
        result |-> ClientRequestError("Custom", "no source request attached")]

\* Response::get_next.
get_next(self, server, token) ==
  IF self.request.some
  THEN IF self.pagination # Absent
       THEN LET req == set_pagination(self.request.value, self.pagination)
                res == req_get(server, req, token)
            IN  IF res.result.tag = "Ok"
                THEN IF res.result.data = self.data
                     THEN [sent |-> res.sent, result |-> [tag |-> "Ok", value |-> None]]
                     ELSE [sent |-> res.sent,
                           result |-> [tag |-> "Ok", value |-> Some(res.result)]]
                ELSE res
       ELSE [sent |-> <<>>, result |-> [tag |-> "Ok", value |-> None]]
  ELSE [sent |-> <<>>,
        result |-> ClientRequestError("Custom", "no source request attached")]

\* The walk starts from the response to the request without a cursor, as
\* req_get returned it or with its request taken off.  The server answers a
\* query with an error of the transport, an error envelope or a page.
InitPagination ==
  /\ LET cursors == {"a", "b", Absent}
         queries == {Serialized(GetHypeTrainEventsRequest(c)).query : c \in cursors}
         replies ==
           {RequestError,
            [tag |-> "Response", status |-> 401,
             body |-> ResponseBody(TRUE, TRUE, "Unauthorized", Number(401),
                                   "Invalid OAuth token", Absent, Absent, Absent)]}
             \cup {Page(data, cursor) : data \in {"page 1", "page 2"}, cursor \in cursors}
         self == GetHypeTrainEventsRequest(Absent)
     IN  \E server \in [queries -> replies], token \in {<<97>>, <<97, 10>>},
            attached \in BOOLEAN :
           LET first == RequestGet_parse_response(Some(self),
                                                  <<self.PATH, Serialized(self).query>>,
                                                  server[Serialized(self).query])
           IN  /\ server[Serialized(self).query] \in {Page("page 1", c) : c \in cursors}
               /\ request = [self |-> self, server |-> server]
               /\ secret = token
               /\ record = IF attached THEN first ELSE [first EXCEPT !.request = None]
  /\ pc = "walk"
  /\ op = "none"
  /\ envelope = <<>>
  /\ result = NoResult
  /\ verdict = "none"
  /\ deny_unknown_fields = FALSE

\* One step of the walk: get_next on the current response; the caller goes on
\* with the page it is given and stops on Ok(None) and on an error.
GetNext ==
  /\ pc = "walk"
  /\ Len(envelope) < MaxPages
  /\ LET next == get_next(record, request.server, secret)
         more == next.result.tag = "Ok" /\ next.result.value.some
     IN  /\ result' = next.result
         /\ envelope' = envelope \o next.sent
         /\ record' = IF more THEN next.result.value.value ELSE record
         /\ pc' = IF more THEN "walk" ELSE "stopped"
  /\ op' = "get_next"
  /\ UNCHANGED <<request, secret, verdict, deny_unknown_fields>>

NextPagination == GetNext

SpecPagination == InitPagination /\ [][NextPagination]_vars

\* The request a step of the walk has to send: the original request with the
\* cursor of the current response.
Expected == Serialized([request.self EXCEPT !.cursor = record.pagination])

\* C25: every step of a walk with get_next sends the original request with
\* its cursor set to the cursor of the previous response; it stops with
\* Ok(None), sending nothing, when the current response has no cursor, and
\* with Ok(None) when the data of the next page equals the data of the
\* current page; a response with no request attached gives an error; an error
\* of the transport or of parsing is returned as it is.
C25_PaginationWalk ==
  [][GetNext =>
       LET sent == SubSeq(envelope', Len(envelope) + 1, Len(envelope'))
           reply == request.server[Expected.query]
       IN  /\ ~record.request.some =>
                /\ result'.tag = "Err" /\ result'.kind = "Custom"
                /\ sent = <<>> /\ pc' = "stopped"
           /\ (record.request.some /\ record.pagination = Absent) =>
                /\ result' = [tag |-> "Ok", value |-> None]
                /\ sent = <<>> /\ pc' = "stopped"
           /\ (record.request.some /\ record.pagination # Absent) =>
                /\ Len(sent) <= 1
                /\ \A i \in 1..Len(sent) :
                     sent[i].method = "GET" /\ sent[i].uri = <<Expected.PATH, Expected.query>>
                /\ sent = <<>> =>
                     /\ ~HeaderValue_from_str(format_bearer(secret)).ok
                     /\ result'.tag = "Err" /\ result'.kind = "CreateRequestError"
                     /\ pc' = "stopped"
                /\ (sent # <<>> /\ reply.tag = "RequestError") =>
                     (result' = ClientRequestError("RequestError", reply) /\ pc' = "stopped")
                /\ (sent # <<>> /\ reply.tag = "Response" /\ reply.body.data = Absent) =>
                     /\ result' = ClientRequestError("HelixRequestGetError",
                                    RequestGet_parse_response(
                                      Some([request.self EXCEPT !.cursor = record.pagination]),
                                      sent[1].uri, reply))
                     /\ pc' = "stopped"
                /\ (sent # <<>> /\ reply.tag = "Response" /\ reply.body.data = record.data) =>
                     (result' = [tag |-> "Ok", value |-> None] /\ pc' = "stopped")
                /\ (sent # <<>> /\ reply.tag = "Response"
                      /\ reply.body.data \notin {Absent, record.data}) =>
                     /\ result'.tag = "Ok" /\ result'.value.some
                     /\ record'.data = reply.body.data
                     /\ record'.pagination = reply.body.cursor
                     /\ pc' = "walk"
  ]_vars

\* A walk of two requests that stops on a page repeating the data of the page
\* before it, although that page has a cursor.
C25_Witness ==
  /\ pc = "stopped" /\ op = "get_next"
  /\ Len(envelope) = 2
  /\ envelope[1].uri # envelope[2].uri
  /\ record.pagination # Absent
  /\ result = [tag |-> "Ok", value |-> None]

\* A walk stopped by an error of the transport at its second request.
C25_WitnessErr ==
  /\ pc = "stopped" /\ op = "get_next"
  /\ Len(envelope) = 2
  /\ result.tag = "Err" /\ result.kind = "RequestError"

====
